---- MODULE Spec2Model ----
(***************************************************************************)
(* A model of the libovsdb client core: the table cache fed by row deltas, *)
(* its bounded event processor and dispatch loop, the cache readers of the *)
(* query API, and the client's notification handler list.                  *)
(***************************************************************************)
EXTENDS Integers, Sequences, FiniteSets, TLC

(***************************************************************************)
(* Bounds of the model.                                                    *)
(***************************************************************************)
\* capacity N of the event processor's queue (newEventProcessor(N))
Capacity == 2
\* number of row deltas the ingestion flow receives in one behaviour
MaxDeltas == 4
\* the most Register calls made on the client
MaxHandlers == 3
\* the most deltas populate receives before and between the queries
ApiDeltas == 2

\* deltas ingested over the life of a connection
LifeDeltas == 2
\* the largest capacity of a result slice handed to List
MaxCap == 2
\* the most columns of a schema
MaxColumns == 2
\* the most models passed to NewDBModel
MaxModels == 2
\* the most operations of a Transact
MaxOps == 2

(***************************************************************************)
(* Values.                                                                 *)
(***************************************************************************)
Tables == {"Open_vSwitch"}
UUIDs == {"u1", "u2"}
Columns == {"foo", "bar"}
\* the values the server sends in each column
Vals(c) == IF c = "foo" THEN {"bar", "quux"} ELSE {"baz"}

\* a Row is a map from column name to value; Row{} is the empty map
Rows == UNION {{r \in [S -> {"bar", "quux", "baz"}] : \A c \in S : r[c] \in Vals(c)} :
               S \in SUBSET Columns}
EmptyRow == [c \in {} |-> "bar"]
\* the old rows the server sends matter only by being empty or not
OldRows == {EmptyRow, [c \in {"foo"} |-> "bar"]}
\* the deltas of the runs that exercise the event pipeline: one row key, and
\* new rows that are absent, partial or complete
FewUUIDs == {"u1"}
FewRows == {EmptyRow, [c \in {"foo"} |-> "quux"], [c \in Columns |-> IF c = "foo" THEN "bar" ELSE "baz"]}

\* the field of the model that carries a column (the `ovs:"..."` tag)
FieldOf(c) == IF c = "foo" THEN "Foo" ELSE "Bar"

addEvent == "add"
updateEvent == "update"
deleteEvent == "delete"
EventTypes == {addEvent, updateEvent, deleteEvent}

\* the observers: which of AddFunc, UpdateFunc, DeleteFunc each one sets
Observers == {"h1", "h2"}
EventHandlerFuncs(h) == IF h = "h1" THEN {addEvent, updateEvent, deleteEvent}
                        ELSE {addEvent}

NoDelta == [seq |-> 0, table |-> "", uuid |-> "", old |-> EmptyRow, new |-> EmptyRow]
NoEvent == [seq |-> 0, eventType |-> "", table |-> "", uuid |-> ""]
NoModel == [UUID |-> "", Foo |-> "", Bar |-> ""]
\* a reference to a model: nil, the instance cached under a uuid ("live"), or
\* an instance the cache has let go of ("kept"), which nothing writes any more
NoElem == [kind |-> "none", uuid |-> "", val |-> NoModel]
\* a Go value: its dynamic type k, the dynamic type e of the elements or keys
\* and f of the values an OvsSet or OvsMap holds, and what it holds, the
\* entries of a map as key, value, key, value
NoValue == [k |-> "nil", e |-> "", f |-> "", v |-> <<>>]
\* no conversion made
NoConversion == [dir |-> "", col |-> 0, in |-> NoValue, out |-> NoValue, err |-> ""]
\* no newModel or FindTable made
NoCall == [op |-> "", arg |-> "", out |-> "", err |-> ""]
\* no call made: no argument
NoArg == [kind |-> "none", type |-> "", nil |-> TRUE, len |-> 0, cap |-> 0]
\* api.cond of the API newAPI returns: no condition
NoCond == [kind |-> "none", table |-> "", model |-> NoModel, fields |-> {}, err |-> ""]

VARIABLES
    cache,        \* TableCache.cache: table -> (uuid -> Model), a RowCache per table
    cacheMutex,   \* TRUE while populate holds the cache lock
    popPc,        \* where populate is: idle, next, apply, modify, enqueue
    cur,          \* the delta populate is applying
    todo,         \* columns of cur.new still to be decoded into the existing record
    nDeltas,      \* deltas received so far; the next delta gets number nDeltas + 1
    version,      \* number of the last delta whose application to the cache is complete
    nApplied,     \* history: how many deltas were applied to the cache
    prior,        \* history: the record under modification as it was before the delta
    popErr,       \* the error of the populate call under way or last made
    events,       \* eventProcessor.events: the buffered channel
    nSubmitted,   \* history: how many AddEvent calls were made
    lastEv,       \* history: the event of the last AddEvent call
    dropped,      \* history: the numbers of the events submitted while the channel was full
    observers,    \* eventProcessor.handlers, in registration order
    runPc,        \* where the dispatch loop is: select, deliver, stopped
    event,        \* the event the dispatch loop took from the channel
    idx,          \* position in observers of the next observer to call
    calls,        \* history: the callbacks invoked, in order
    stopCh,       \* TRUE once the lifecycle channel is closed
    dcPc,         \* where Disconnect is: idle, close (stopCh closed), done (rpcClient closed)
    rPc,          \* where the reader (a List or Get call) is
    rOp,          \* the call the reader makes: List or Get
    rKeys,        \* the uuids RowCache.Rows returned that it has not visited yet
    rElem,        \* the model RowCache.Row returned: a reference to a cached instance
    rCap,         \* List: the capacity of the result slice
    rErr,         \* the error the call returned
    result,       \* List: the result slice
    rModel,       \* Get: the caller's model
    rCond,        \* the condition of the ConditionalAPI the caller got from Where
    rArg,         \* history: the model the caller passed, as it was at the call
    rOut,         \* Create, generate: the operation or the conditions returned
    rIn,          \* history: the shape of the argument of the last call
    schPc,        \* DatabaseSchema.Unmarshal: none, columns, ok, error, panic
    schIn,        \* the raw types of the columns it has still to resolve
    schCols,      \* the columns it has resolved
    cv,           \* the last conversion: its direction, argument, result and error
    dbPc,         \* NewDBModel: none, ok (a DBModel returned), error
    dbModels,     \* history: the models NewDBModel was called with
    dbTypes,      \* DBModel.types: table name -> type
    dbCall,       \* the last newModel or FindTable: its argument, result and error
    txPc,         \* Transact: idle, done (it has returned)
    txOps,        \* history: the operations of the last Transact
    txErr,        \* the error of the last Transact
    rpcCalls,     \* history: the calls Transact made on the rpc client, in order
    handlers,     \* OvsdbClient.handlers: the backing array of the slice, all its slots
    handlersLen,  \* OvsdbClient.handlers: the length of the slice
    handlersMutex,\* OvsdbClient.handlersMutex is held
    unregErr,     \* the error of the last Unregister
    nRegistered,  \* history: how many Register calls were made
    nPc,          \* update / echo: position of the notification callback
    nKind,        \* update / echo: which notification is being delivered
    nIdx,         \* update / echo: index of the range loop
    nLen,         \* update / echo: length of the slice the range loop evaluated
    nVisited,     \* update / echo: handlers called by the delivery under way
    dPc,          \* handleDisconnectNotification: position
    dIdx,         \* clearConnection: index of the range loop
    dLen,         \* clearConnection: length of the slice the range loop evaluated
    dShared,      \* clearConnection: the array it ranges over is still the client's
    dSnap,        \* clearConnection: the array it ranges over, once the client left it
    dStart,       \* history: the handlers registered when clearConnection began
    dRemoved,     \* history: the handlers unregistered while clearConnection iterates
    dVisited      \* clearConnection: handlers called

popVars == <<cache, cacheMutex, popPc, cur, todo, nDeltas, version, nApplied, prior, popErr>>
epVars == <<events, nSubmitted, lastEv, dropped>>
runVars == <<observers, runPc, event, idx, calls, stopCh, dcPc>>
readVars == <<rPc, rOp, rKeys, rElem, rCap, rErr, result, rModel, rCond, rArg, rOut, rIn>>
clientVars == <<handlers, handlersLen, handlersMutex, unregErr, nRegistered, nPc, nKind, nIdx, nLen,
                nVisited, dPc, dIdx, dLen, dShared, dSnap, dStart, dRemoved, dVisited>>
schemaVars == <<schPc, schIn, schCols, cv>>
modelVars == <<dbPc, dbModels, dbTypes, dbCall>>
transactVars == <<txPc, txOps, txErr, rpcCalls>>
vars == <<popVars, epVars, runVars, readVars, clientVars, schemaVars, modelVars, transactVars>>

(***************************************************************************)
(* Models and rows.                                                        *)
(***************************************************************************)
\* DBModel.newModel: a zero-value instance of the table's model
newModel(table) == [UUID |-> "", Foo |-> "", Bar |-> ""]

\* rowToFields: decode the given columns of the row into the model's fields;
\* the other fields are left as they are
rowToFields(row, model, cols) ==
    [f \in DOMAIN model |->
        IF \E c \in cols \cap DOMAIN row : FieldOf(c) = f
        THEN row[CHOOSE c \in cols \cap DOMAIN row : FieldOf(c) = f]
        ELSE model[f]]

\* modelSetUUID finding no field to write
modelSetUUIDNone(model, uuid) == model

\* modelSetUUID writing the first string field instead of the tagged one
modelSetUUIDWrongField(model, uuid) == [model EXCEPT !.Foo = uuid]

\* modelSetUUID: write the uuid into the field tagged _uuid
modelSetUUID(model, uuid) == [model EXCEPT !.UUID = uuid]

\* a new instance decoded from a row, with the row's key as its identity
createModel(table, row, uuid) ==
    modelSetUUID(rowToFields(row, newModel(table), DOMAIN row), uuid)

\* the uuids of a RowCache (RowCache.Rows)
RowsOf(table) == DOMAIN cache[table]

Put(rc, uuid, model) == [u \in DOMAIN rc \cup {uuid} |-> IF u = uuid THEN model ELSE rc[u]]
Remove(rc, uuid) == [u \in DOMAIN rc \ {uuid} |-> rc[u]]

(***************************************************************************)
(* Init.                                                                   *)
(***************************************************************************)
Init ==
    /\ cache = [t \in Tables |-> EmptyRow]
    /\ cacheMutex = FALSE
    /\ popPc = "idle"
    /\ cur = NoDelta
    /\ todo = {}
    /\ nDeltas = 0
    /\ version = 0
    /\ nApplied = 0
    /\ prior = NoModel
    /\ popErr = ""
    /\ events = <<>>
    /\ nSubmitted = 0
    /\ lastEv = NoEvent
    /\ dropped = {}
    /\ observers = <<>>
    /\ runPc = "select"
    /\ event = NoEvent
    /\ idx = 0
    /\ calls = <<>>
    /\ stopCh = FALSE
    /\ dcPc = "idle"
    /\ rPc = "idle"
    /\ rOp = ""
    /\ rKeys = <<>>
    /\ rElem = NoElem
    /\ rCap = 0
    /\ rErr = ""
    /\ handlers = <<>>
    /\ handlersLen = 0
    /\ handlersMutex = FALSE
    /\ unregErr = ""
    /\ nRegistered = 0
    /\ nPc = "idle"
    /\ nKind = ""
    /\ nIdx = 0
    /\ nLen = 0
    /\ nVisited = <<>>
    /\ dPc = "wait"
    /\ dIdx = 0
    /\ dLen = 0
    /\ dShared = FALSE
    /\ dSnap = <<>>
    /\ dStart = <<>>
    /\ dRemoved = {}
    /\ dVisited = <<>>
    /\ result = <<>>
    /\ rModel = NoModel
    /\ rCond = NoCond
    /\ rArg = NoModel
    /\ rOut = <<>>
    /\ rIn = NoArg
    /\ schPc = "none"
    /\ schIn = <<>>
    /\ schCols = <<>>
    /\ cv = NoConversion
    /\ dbPc = "none"
    /\ dbModels = <<>>
    /\ dbTypes = <<>>
    /\ dbCall = NoCall
    /\ txPc = "idle"
    /\ txOps = <<>>
    /\ txErr = ""
    /\ rpcCalls = <<>>

(***************************************************************************)
(* Event processor.                                                        *)
(***************************************************************************)
\* AddEvent without the check for a full buffer
AddEventNoLimit(ev) == events' = Append(events, ev)

\* AddEvent putting the event in front of the waiting ones
AddEventFront(ev) == events' = IF Len(events) < Capacity THEN <<ev>> \o events ELSE events

\* AddEvent as a blocking send
AddEventBlocking(ev) == Len(events) < Capacity /\ events' = Append(events, ev)

\* AddEvent: a non-blocking send on the buffered channel; the event is
\* dropped when the buffer is full
AddEvent(ev) == events' = IF Len(events) < Capacity THEN Append(events, ev) ELSE events

\* eventTypeOf with the test of the old row inverted
eventTypeOfInverted(d) ==
    IF d.new = EmptyRow THEN deleteEvent
    ELSE IF d.old # EmptyRow THEN addEvent
    ELSE updateEvent

\* the event type populate gives a delta
eventTypeOf(d) ==
    IF d.old = EmptyRow THEN addEvent
    ELSE IF d.new # EmptyRow THEN updateEvent
    ELSE deleteEvent

(***************************************************************************)
(* populate: the ingestion flow.                                           *)
(***************************************************************************)
\* populate submitting the event before it updates the cache
populateFlowEventFirst(pc) ==
    IF pc = "take" THEN "enqueue"
    ELSE IF pc = "enqueue" THEN "apply"
    ELSE "next"

\* the order of populate's statements for one delta: the cache is brought
\* up to date first, the event is submitted after
populateFlow(pc) ==
    IF pc = "take" THEN "apply"
    ELSE IF pc = "apply" THEN "enqueue"
    ELSE "next"

\* a delta with neither an old nor a new row is not applied
Applicable(d) == d.old # EmptyRow \/ d.new # EmptyRow

\* a modify of a cached row updates the existing instance in place
InPlace(d) == d.new # EmptyRow /\ d.old # EmptyRow /\ d.uuid \in RowsOf(d.table)

\* populate is entered: the cache lock is taken for the whole batch
PopulateBegin ==
    /\ popPc = "idle"
    /\ ~cacheMutex
    /\ nDeltas < MaxDeltas
    /\ cacheMutex' = TRUE
    /\ popPc' = "next"
    /\ popErr' = ""
    /\ UNCHANGED <<modelVars, transactVars, schemaVars, clientVars, cache, cur, todo, nDeltas, version, nApplied, prior, epVars, runVars, readVars>>

\* after a statement of populate: the delta is forgotten once it is done with
AfterStep(pc) ==
    /\ popPc' = populateFlow(pc)
    /\ cur' = IF populateFlow(pc) = "next" THEN NoDelta ELSE cur

\* the next delta of the batch is taken
TakeFrom(uuids, olds, news) ==
    /\ popPc = "next"
    /\ nDeltas < MaxDeltas
    /\ \E t \in Tables, u \in uuids, old \in olds, new \in news :
        LET d == [seq |-> nDeltas + 1, table |-> t, uuid |-> u, old |-> old, new |-> new]
        IN IF Applicable(d)
           THEN cur' = d /\ popPc' = populateFlow("take")
           ELSE cur' = NoDelta /\ popPc' = "next"
    /\ nDeltas' = nDeltas + 1
    /\ UNCHANGED <<modelVars, transactVars, schemaVars, clientVars, popErr, cache, cacheMutex, todo, version, nApplied, prior, epVars, runVars, readVars>>

PopulateTake == TakeFrom(UUIDs, OldRows, Rows)

PopulateTakeFew == TakeFrom(FewUUIDs, OldRows, FewRows)

PopulateTakeRows == TakeFrom(UUIDs, OldRows, FewRows)

\* a column value that does not decode to the field's type
BadValue == "#malformed"

\* rows with and without such a value
BadRows ==
    FewRows \cup {[c \in {"foo"} |-> BadValue],
                  [c \in Columns |-> IF c = "foo" THEN "bar" ELSE BadValue]}

\* decoding the row fails: a column of it does not convert
Malformed(row) == \E c \in DOMAIN row : row[c] = BadValue

PopulateTakeBad == TakeFrom(UUIDs, OldRows, BadRows)

\* a delta that does not decode taking the whole batch down: populate
\* returns at once
PopulateSkipAbort ==
    /\ popPc = "apply"
    /\ Malformed(cur.new)
    /\ popErr' = "malformed"
    /\ popPc' = "idle"
    /\ cacheMutex' = FALSE
    /\ cur' = NoDelta
    /\ UNCHANGED <<modelVars, transactVars, schemaVars, clientVars, cache, todo, nDeltas, version, nApplied, prior, epVars, runVars,
                   readVars>>

\* a delta that does not decode is given up, the cache and the events are
\* left alone, the error is kept for the return and the batch goes on
PopulateSkip ==
    /\ popPc = "apply"
    /\ Malformed(cur.new)
    /\ popErr' = "malformed"
    /\ popPc' = "next"
    /\ cur' = NoDelta
    /\ UNCHANGED <<modelVars, transactVars, schemaVars, clientVars, cache, cacheMutex, todo, nDeltas, version, nApplied, prior, epVars,
                   runVars, readVars>>

\* an insert stores a new instance under the row's key, a delete removes the key
PopulateApply ==
    /\ popPc = "apply"
    /\ ~Malformed(cur.new)
    /\ ~InPlace(cur)
    /\ cache' = [cache EXCEPT ![cur.table] =
                    IF cur.new # EmptyRow
                    THEN Put(@, cur.uuid, createModel(cur.table, cur.new, cur.uuid))
                    ELSE Remove(@, cur.uuid)]
    /\ rElem' = IF rElem.kind = "live" /\ rElem.uuid = cur.uuid
                THEN [kind |-> "kept", uuid |-> cur.uuid, val |-> cache[cur.table][cur.uuid]]
                ELSE rElem
    /\ version' = cur.seq
    /\ nApplied' = nApplied + 1
    /\ AfterStep("apply")
    /\ UNCHANGED <<modelVars, transactVars, schemaVars, clientVars, rCond, rArg, rOut, rIn, popErr, cacheMutex, todo, nDeltas, prior, epVars, runVars, rPc, rOp, rKeys, rCap, rErr, result, rModel>>

\* a modify starts decoding the new row into the existing instance
PopulateModify ==
    /\ popPc = "apply"
    /\ ~Malformed(cur.new)
    /\ InPlace(cur)
    /\ todo' = DOMAIN cur.new
    /\ prior' = cache[cur.table][cur.uuid]
    /\ popPc' = "modify"
    /\ UNCHANGED <<modelVars, transactVars, schemaVars, clientVars, popErr, cache, cacheMutex, cur, nDeltas, version, nApplied, epVars, runVars, readVars>>

\* one column of the new row is decoded into the existing instance
PopulateSetField ==
    /\ popPc = "modify"
    /\ \E c \in todo :
        /\ cache' = [cache EXCEPT ![cur.table][cur.uuid] = rowToFields(cur.new, @, {c})]
        /\ todo' = todo \ {c}
        /\ IF todo = {c}
           THEN /\ version' = cur.seq
                /\ nApplied' = nApplied + 1
                /\ prior' = NoModel
                /\ AfterStep("apply")
           ELSE UNCHANGED <<version, nApplied, prior, popPc, cur>>
    /\ UNCHANGED <<modelVars, transactVars, schemaVars, clientVars, popErr, cacheMutex, nDeltas, epVars, runVars, readVars>>

\* the delta's event is submitted to the event processor
PopulateAddEvent ==
    /\ popPc = "enqueue"
    /\ LET ev == [seq |-> cur.seq, eventType |-> eventTypeOf(cur),
                  table |-> cur.table, uuid |-> cur.uuid]
       IN /\ AddEvent(ev)
          /\ lastEv' = ev
          /\ dropped' = IF Len(events) >= Capacity THEN dropped \cup {ev.seq} ELSE dropped
    /\ nSubmitted' = nSubmitted + 1
    /\ AfterStep("enqueue")
    /\ UNCHANGED <<modelVars, transactVars, schemaVars, clientVars, popErr, cache, cacheMutex, todo, nDeltas, version, nApplied, prior, runVars, readVars>>

\* the batch is over: the cache lock is released
PopulateEnd ==
    /\ popPc = "next"
    /\ cacheMutex' = FALSE
    /\ popPc' = "idle"
    /\ UNCHANGED <<modelVars, transactVars, schemaVars, clientVars, popErr, cache, cur, todo, nDeltas, version, nApplied, prior, epVars, runVars, readVars>>

(***************************************************************************)
(* The dispatch loop and the observers.                                    *)
(***************************************************************************)
\* AddEventHandler: waits for the handler lock the dispatch loop holds
\* while it delivers an event
AddEventHandler ==
    /\ runPc # "deliver"
    /\ \E h \in Observers :
        /\ \A i \in 1..Len(observers) : observers[i] # h
        /\ observers' = Append(observers, h)
    /\ UNCHANGED <<modelVars, transactVars, schemaVars, clientVars, dcPc, popVars, epVars, runPc, event, idx, calls, stopCh, readVars>>

\* select: the lifecycle channel is closed
RunStop ==
    /\ runPc = "select"
    /\ stopCh
    /\ runPc' = "stopped"
    /\ UNCHANGED <<modelVars, transactVars, schemaVars, clientVars, dcPc, popVars, epVars, observers, event, idx, calls, stopCh, readVars>>

\* select that receives only from a full channel
RunReceiveWhenFull ==
    /\ runPc = "select"
    /\ Len(events) = Capacity
    /\ event' = Head(events)
    /\ events' = Tail(events)
    /\ idx' = 1
    /\ runPc' = "deliver"
    /\ UNCHANGED <<modelVars, transactVars, schemaVars, clientVars, dcPc, popVars, nSubmitted, lastEv, dropped, observers, calls, stopCh, readVars>>

\* select: an event is received from the channel
RunReceive ==
    /\ runPc = "select"
    /\ events # <<>>
    /\ event' = Head(events)
    /\ events' = Tail(events)
    /\ idx' = 1
    /\ runPc' = "deliver"
    /\ UNCHANGED <<modelVars, transactVars, schemaVars, clientVars, dcPc, popVars, nSubmitted, lastEv, dropped, observers, calls, stopCh, readVars>>

\* OnAdd, OnUpdate, OnDelete without the nil check
OnEventUnchecked(h, eventType) == TRUE

\* OnAdd, OnUpdate, OnDelete: the observer's function for the event's type
\* is called unless it is nil
OnEvent(h, eventType) == eventType \in EventHandlerFuncs(h)

\* the next observer is handed the event
RunCall ==
    /\ runPc = "deliver"
    /\ idx <= Len(observers)
    /\ calls' = IF OnEvent(observers[idx], event.eventType)
                THEN Append(calls, [seq |-> event.seq, pos |-> idx])
                ELSE calls
    /\ idx' = idx + 1
    /\ UNCHANGED <<modelVars, transactVars, schemaVars, clientVars, dcPc, popVars, epVars, observers, runPc, event, stopCh, readVars>>

\* every observer was visited: back to select
RunDone ==
    /\ runPc = "deliver"
    /\ idx > Len(observers)
    /\ runPc' = "select"
    /\ event' = NoEvent
    /\ idx' = 0
    /\ UNCHANGED <<modelVars, transactVars, schemaVars, clientVars, dcPc, popVars, epVars, observers, calls, stopCh, readVars>>

\* Disconnect leaving the lifecycle channel open
DisconnectNoSignal ==
    /\ ~stopCh
    /\ dcPc = "idle"
    /\ dcPc' = "close"
    /\ UNCHANGED <<modelVars, transactVars, schemaVars, clientVars, popVars, epVars, observers, runPc, event, idx, calls, stopCh,
                   readVars>>

\* Disconnect closes the lifecycle channel
Disconnect ==
    /\ ~stopCh
    /\ dcPc = "idle"
    /\ stopCh' = TRUE
    /\ dcPc' = "close"
    /\ UNCHANGED <<modelVars, transactVars, schemaVars, clientVars, popVars, epVars, observers, runPc, event, idx, calls, readVars>>

\* Disconnect then closes the rpc client: no notification is delivered
\* after that
RpcClose ==
    /\ dcPc = "close"
    /\ dcPc' = "done"
    /\ UNCHANGED <<modelVars, transactVars, schemaVars, clientVars, popVars, epVars, observers, runPc, event, idx, calls, stopCh,
                   readVars>>

\* an update notification of the open rpc client starts populate
UpdateBegin == dcPc # "done" /\ nDeltas < LifeDeltas /\ PopulateBegin

\* the deltas of the notification
UpdateTake == nDeltas < LifeDeltas /\ PopulateTakeFew

(***************************************************************************)
(* The readers of the cache: List and Get of the query API.                *)
(***************************************************************************)
\* the table the reader's model type is registered for (getTableFromModel)
rTable == "Open_vSwitch"

\* the orders in which RowCache.Rows may return the uuids of a map
Perms(S) == {q \in [1..Cardinality(S) -> S] : \A i, j \in DOMAIN q : i # j => q[i] # q[j]}

\* RowCache.Row: the cached instance, or nil
Row(uuid) ==
    IF uuid \in RowsOf(rTable) THEN [kind |-> "live", uuid |-> uuid, val |-> NoModel]
    ELSE [kind |-> "nil", uuid |-> uuid, val |-> NoModel]

\* the fields of the instance a reference leads to, as they are now
Deref(ref) == IF ref.kind = "live" THEN cache[rTable][ref.uuid] ELSE ref.val

\* the index column groups the schema declares for the table
Indexes(table) == {{"foo"}}

\* orm.equalFields: on the explicit fields when there are any, else on the
\* identity when a has one, else on every column of the table's indexes
equalFields(table, a, b, fields) ==
    IF fields # {} THEN \A f \in fields : a[f] = b[f]
    ELSE IF a.UUID # "" THEN a.UUID = b.UUID
    ELSE \A g \in Indexes(table) : \A c \in g : a[FieldOf(c)] = b[FieldOf(c)]

\* indexCond.matches with the two models exchanged
indexCondMatchesSwapped(cond, m) == equalFields(cond.table, m, cond.model, cond.fields)

\* indexCond.matches: the condition's model against a model of the cache
indexCondMatches(cond, m) == equalFields(cond.table, cond.model, m, cond.fields)

\* predicateCond.matches: the caller's function applied to the model; the
\* function used here is func(m) bool { return m.Bar == "baz" }
predicateCondMatches(cond, m) == m.Bar = "baz"

\* conditionFactory.matches
matches(cond, m) ==
    IF cond.kind = "index" THEN indexCondMatches(cond, m) ELSE predicateCondMatches(cond, m)

\* orm.newRow: the columns of the fields that are set; the identity is no column of the row
newRow(table, model) ==
    [c \in {d \in Columns : model[FieldOf(d)] # ""} |-> model[FieldOf(c)]]

\* orm.newCondition: equality clauses on the explicit fields, else on the
\* identity, else on the index columns
newCondition(table, model, fields) ==
    IF fields # {} THEN {<<c, "==", model[FieldOf(c)]>> : c \in {d \in Columns : FieldOf(d) \in fields}}
    ELSE IF model.UUID # "" THEN {<<"_uuid", "==", model.UUID>>}
    ELSE {<<c, "==", model[FieldOf(c)]>> : c \in UNION Indexes(table)}

\* the models a caller passes: nothing set, the identity set, the indexed
\* field set to a cached or to an unknown value, another field set
IdentityModels == {[NoModel EXCEPT !.UUID = u] : u \in UUIDs}
ArgModels ==
    IdentityModels \cup
    {NoModel, [NoModel EXCEPT !.Foo = "bar"], [NoModel EXCEPT !.Foo = "foo"],
     [NoModel EXCEPT !.Bar = "baz"], [NoModel EXCEPT !.UUID = "u1", !.Foo = "quux"]}

\* the conditions Where builds: an index condition from a model, with or
\* without a pointer to the field Bar, and a predicate condition
Conditions ==
    {[kind |-> "index", table |-> rTable, model |-> m, fields |-> f, err |-> ""] :
        m \in ArgModels, f \in {{}, {"Bar"}}}
    \cup {[kind |-> "predicate", table |-> rTable, model |-> NoModel, fields |-> {},
            err |-> ""]}

\* Where(model, fields...) and Where(func): the API with the condition
Where ==
    /\ rPc = "idle"
    /\ rCond = NoCond
    /\ \E c \in Conditions : rCond' = c
    /\ UNCHANGED <<modelVars, transactVars, schemaVars, clientVars, popVars, epVars, runVars, rPc, rOp, rKeys, rElem, rCap, rErr,
                   result, rModel, rArg, rOut, rIn>>

\* List that makes the nil slice one element too short for the table
ListBeginShort ==
    /\ rPc = "idle"
    /\ ~cacheMutex
    /\ rOp' = "List"
    /\ rCap' = IF RowsOf(rTable) = {} THEN 0 ELSE Cardinality(RowsOf(rTable)) - 1
    /\ result' = <<>>
    /\ rPc' = "rows"
    /\ UNCHANGED <<modelVars, transactVars, schemaVars, clientVars, popVars, epVars, runVars, rKeys, rElem, rErr, rModel, rCond,
                   rArg, rOut, rIn>>

\* List(&result) with a nil slice: the table is looked up and the slice is
\* made with the capacity RowCache.Len reports
ListBegin ==
    /\ rPc = "idle"
    /\ ~cacheMutex
    /\ rOp' = "List"
    /\ rCap' = Cardinality(RowsOf(rTable))
    /\ result' = <<>>
    /\ rPc' = "rows"
    /\ UNCHANGED <<modelVars, transactVars, schemaVars, clientVars, popVars, epVars, runVars, rKeys, rElem, rErr, rModel, rCond,
                   rArg, rOut, rIn>>

\* Get(model): the table is looked up; the lookup by the identity is never
\* taken (its test wants an error and a value at once), the cache is scanned
GetFrom(models) ==
    /\ rPc = "idle"
    /\ rCond = NoCond
    /\ ~cacheMutex
    /\ rOp' = "Get"
    /\ \E m \in models : rModel' = m /\ rArg' = m
    /\ rPc' = "rows"
    /\ UNCHANGED <<modelVars, transactVars, schemaVars, clientVars, popVars, epVars, runVars, rKeys, rElem, rCap, rErr, result,
                   rCond, rOut, rIn>>

\* Get with the identity field set
GetBegin == GetFrom(IdentityModels)

\* Get with any model
GetAny == GetFrom(ArgModels)

\* generate of the condition: an index condition gives its one condition; a
\* predicate condition looks the table up, returns NotFoundError when the
\* cache has no such table, and scans its cache
GenerateBegin ==
    /\ rPc = "idle"
    /\ rCond.kind \in {"index", "predicate"}
    /\ ~cacheMutex
    /\ rOp' = "generate"
    /\ IF rCond.kind = "index"
       THEN /\ rOut' = <<newCondition(rCond.table, rCond.model, rCond.fields)>>
            /\ rErr' = ""
            /\ rPc' = "done"
       ELSE IF rCond.table \notin DOMAIN cache
       THEN /\ rOut' = <<>>
            /\ rErr' = "NotFound"
            /\ rPc' = "done"
       ELSE /\ rOut' = <<>>
            /\ rErr' = ""
            /\ rPc' = "rows"
    /\ UNCHANGED <<modelVars, transactVars, schemaVars, clientVars, popVars, epVars, runVars, rKeys, rElem, rCap, result,
                   rModel, rCond, rArg, rIn>>

\* Create that names no uuid in the operation
CreateAnonymous ==
    /\ rPc = "idle"
    /\ rCond = NoCond
    /\ rOp' = "Create"
    /\ \E m \in ArgModels :
          /\ rArg' = m
          /\ rOut' = <<[op |-> "insert", table |-> rTable, row |-> newRow(rTable, m),
                        uuidName |-> ""]>>
    /\ rPc' = "done"
    /\ UNCHANGED <<modelVars, transactVars, schemaVars, clientVars, popVars, epVars, runVars, rKeys, rElem, rCap, rErr, result,
                   rModel, rCond, rIn>>

\* Create that also stores the model in the cache, ahead of the server
CreateSpeculative ==
    /\ rPc = "idle"
    /\ rCond = NoCond
    /\ ~cacheMutex
    /\ rOp' = "Create"
    /\ \E m \in ArgModels :
          /\ rArg' = m
          /\ rOut' = <<[op |-> "insert", table |-> rTable, row |-> newRow(rTable, m),
                        uuidName |-> m.UUID]>>
          /\ cache' = [cache EXCEPT ![rTable] = Put(cache[rTable], m.UUID, m)]
    /\ rPc' = "done"
    /\ UNCHANGED <<modelVars, transactVars, schemaVars, clientVars, cacheMutex, popPc, cur, todo, nDeltas, version, nApplied, prior,
                   popErr, epVars, runVars, rKeys, rElem, rCap, rErr, result, rModel, rCond,
                   rIn>>

\* Create(model): the insert operation with the model's row; the identity
\* the model holds is the operation's named uuid
Create ==
    /\ rPc = "idle"
    /\ rCond = NoCond
    /\ rOp' = "Create"
    /\ \E m \in ArgModels :
          /\ rArg' = m
          /\ rOut' = <<[op |-> "insert", table |-> rTable, row |-> newRow(rTable, m),
                        uuidName |-> m.UUID]>>
    /\ rPc' = "done"
    /\ UNCHANGED <<modelVars, transactVars, schemaVars, clientVars, popVars, epVars, runVars, rKeys, rElem, rCap, rErr, result,
                   rModel, rCond, rIn>>

\* the types a caller hands to the API: the model of the cached table, the
\* model of a table the cache holds nothing of, a Model the database model
\* does not know, and a type that is no Model
Types == {"OpenvSwitch", "Bridge", "Unregistered", "string"}

\* the type implements the Model interface
IsModel(t) == t # "string"

\* DBModel.FindTable: the table of a registered type, or ""
FindTable(t) ==
    IF t = "OpenvSwitch" THEN "Open_vSwitch" ELSE IF t = "Bridge" THEN "Bridge" ELSE ""

\* getTableFromModel: the error, if any
tableFromModelError(t) == IF ~IsModel(t) \/ FindTable(t) = "" THEN "InputType" ELSE ""

\* the elements of make([]T, n, c)
Zeros(n) == [i \in 1..n |-> NoModel]

\* what List is called with: a value that is no pointer, a pointer to a
\* struct, a pointer to a nil slice of each type, and a pointer to a
\* slice of the cached table's model made with a length and a capacity
ListArgs ==
    {[kind |-> k, type |-> "OpenvSwitch", nil |-> TRUE, len |-> 0, cap |-> 0] :
        k \in {"slice", "ptrstruct"}}
    \cup {[kind |-> "ptrslice", type |-> t, nil |-> TRUE, len |-> 0, cap |-> 0] : t \in Types}
    \cup {a \in [kind : {"ptrslice"}, type : {"OpenvSwitch"}, nil : {FALSE},
                  len : 0..MaxCap, cap : 0..MaxCap] : a.len <= a.cap}

\* the checks of List without the one of the condition's table
listErrorNoTable(a, cond) ==
    IF cond.kind = "error" THEN cond.err
    ELSE IF a.kind # "ptrslice" THEN "InputType"
    ELSE IF tableFromModelError(a.type) # "" THEN "InputType"
    ELSE IF FindTable(a.type) \notin DOMAIN cache THEN "NotFound"
    ELSE ""

\* the error List returns before it reads the cache, "" when none: of
\* the errorApi its own, else of the result's type, of the condition's
\* table, of the table's cache
listError(a, cond) ==
    IF cond.kind = "error" THEN cond.err
    ELSE IF a.kind # "ptrslice" THEN "InputType"
    ELSE IF tableFromModelError(a.type) # "" THEN "InputType"
    ELSE IF cond.kind # "none" /\ cond.table # FindTable(a.type) THEN "InputType"
    ELSE IF FindTable(a.type) \notin DOMAIN cache THEN "NotFound"
    ELSE ""

\* List that makes the slice before it checks its argument
ListArgEager ==
    /\ rPc = "idle"
    /\ ~cacheMutex
    /\ rOp' = "List"
    /\ \E a \in ListArgs :
          /\ rIn' = a
          /\ result' = Zeros(a.len)
          /\ rCap' = IF a.nil THEN Cardinality(RowsOf(rTable)) ELSE a.cap
          /\ rErr' = listError(a, rCond)
          /\ rPc' = IF listError(a, rCond) # "" THEN "done" ELSE "rows"
    /\ UNCHANGED <<modelVars, transactVars, schemaVars, clientVars, popVars, epVars, runVars, rKeys, rElem, rModel, rCond, rArg,
                   rOut>>

\* List(result) up to the scan: the checks of the argument, then a nil
\* slice is made with the capacity of the table's length
ListArg ==
    /\ rPc = "idle"
    /\ ~cacheMutex
    /\ rOp' = "List"
    /\ \E a \in ListArgs :
          /\ rIn' = a
          /\ result' = Zeros(a.len)
          /\ rErr' = listError(a, rCond)
          /\ IF listError(a, rCond) # ""
             THEN rPc' = "done" /\ rCap' = a.cap
             ELSE /\ rPc' = "rows"
                  /\ rCap' = IF a.nil THEN Cardinality(RowsOf(rTable)) ELSE a.cap
    /\ UNCHANGED <<modelVars, transactVars, schemaVars, clientVars, popVars, epVars, runVars, rKeys, rElem, rModel, rCond, rArg,
                   rOut>>

\* what Where is called with: nil, a function of the wrong arity or return
\* type, a function of one argument of each type returning bool, a value
\* of each type
WhereArgs ==
    {[kind |-> k, type |-> "", nil |-> TRUE, len |-> 0, cap |-> 0] :
        k \in {"nil", "funcArity", "funcRet"}}
    \cup {[kind |-> k, type |-> t, nil |-> FALSE, len |-> 0, cap |-> 0] :
            k \in {"func", "model"}, t \in Types}

\* the error Where keeps for later, "" when the condition is built
whereError(a) ==
    IF a.kind = "nil" THEN "Condition: nil"
    ELSE IF a.kind \in {"funcArity", "funcRet"} THEN "Condition: func"
    ELSE IF tableFromModelError(a.type) # "" THEN "Condition: type"
    ELSE ""

\* the errorApi of an error
ErrorCond(e) == [kind |-> "error", table |-> "", model |-> NoModel, fields |-> {}, err |-> e]

\* the records a caller builds an index condition from
WhereModels == {NoModel, [NoModel EXCEPT !.Foo = "bar"], [NoModel EXCEPT !.UUID = "u1"]}

\* Where that panics on an argument it cannot build a condition from
WhereArgPanic ==
    /\ rPc = "idle"
    /\ rCond.kind \in {"none", "error"}
    /\ \E a \in WhereArgs :
          /\ rIn' = a
          /\ IF rCond.kind = "error"
             THEN UNCHANGED <<rCond, rPc>>
             ELSE IF whereError(a) # ""
             THEN rPc' = "panic" /\ UNCHANGED rCond
             ELSE /\ rPc' = rPc
                  /\ IF a.kind = "func"
                     THEN rCond' = [kind |-> "predicate", table |-> FindTable(a.type),
                                    model |-> NoModel, fields |-> {}, err |-> ""]
                     ELSE \E m \in WhereModels :
                            rCond' = [kind |-> "index", table |-> FindTable(a.type),
                                      model |-> IF a.type = "OpenvSwitch" THEN m ELSE NoModel,
                                      fields |-> {}, err |-> ""]
    /\ UNCHANGED <<modelVars, transactVars, schemaVars, clientVars, popVars, epVars, runVars, rOp, rKeys, rElem, rCap, rErr,
                   result, rModel, rArg, rOut>>

\* Where(first, extra...) of the API and of the ConditionalAPI it returned:
\* the errorApi returns itself; the API returns an errorApi for an argument
\* it builds no condition from, else the API with the predicate condition
\* of a function or the index condition of a model
WhereArg ==
    /\ rPc = "idle"
    /\ rCond.kind \in {"none", "error"}
    /\ \E a \in WhereArgs :
          /\ rIn' = a
          /\ IF rCond.kind = "error"
             THEN UNCHANGED rCond
             ELSE IF whereError(a) # ""
             THEN rCond' = ErrorCond(whereError(a))
             ELSE IF a.kind = "func"
             THEN rCond' = [kind |-> "predicate", table |-> FindTable(a.type),
                            model |-> NoModel, fields |-> {}, err |-> ""]
             ELSE \E m \in WhereModels :
                    rCond' = [kind |-> "index", table |-> FindTable(a.type),
                              model |-> IF a.type = "OpenvSwitch" THEN m ELSE NoModel,
                              fields |-> {}, err |-> ""]
    /\ UNCHANGED <<modelVars, transactVars, schemaVars, clientVars, popVars, epVars, runVars, rPc, rOp, rKeys, rElem, rCap, rErr,
                   result, rModel, rArg, rOut>>

\* what Get is called with: a model of each type that is a Model
GetArgs ==
    {[kind |-> "model", type |-> t, nil |-> FALSE, len |-> 0, cap |-> 0] :
        t \in {"OpenvSwitch", "Bridge", "Unregistered"}}

\* the error Get returns before it reads the cache, "" when none
getError(a) ==
    IF tableFromModelError(a.type) # "" THEN "InputType"
    ELSE IF FindTable(a.type) \notin DOMAIN cache THEN "NotFound"
    ELSE ""

\* Get(model) up to the scan: the checks of the model's type and of the
\* table's cache
GetArg ==
    /\ rPc = "idle"
    /\ rCond = NoCond
    /\ ~cacheMutex
    /\ rOp' = "Get"
    /\ \E a \in GetArgs :
          /\ rIn' = a
          /\ \E m \in IF a.type = "OpenvSwitch" THEN ArgModels ELSE {NoModel} :
                rModel' = m /\ rArg' = m
          /\ rErr' = getError(a)
          /\ rPc' = IF getError(a) # "" THEN "done" ELSE "rows"
    /\ UNCHANGED <<modelVars, transactVars, schemaVars, clientVars, popVars, epVars, runVars, rKeys, rElem, rCap, result, rCond,
                   rOut>>

\* tableCache.Rows(): the uuids of the table, read under the cache lock
ReaderRows ==
    /\ rPc = "rows"
    /\ ~cacheMutex
    /\ \E q \in Perms(RowsOf(rTable)) : rKeys' = q
    /\ rPc' = "row"
    /\ UNCHANGED <<modelVars, transactVars, schemaVars, clientVars, popVars, epVars, runVars, rOp, rElem, rCap, rErr, result,
                   rModel, rCond, rArg, rOut, rIn>>

\* tableCache.Row(row): the instance of the next uuid, read under the cache lock
ReaderRow ==
    /\ rPc = "row"
    /\ rKeys # <<>>
    /\ ~cacheMutex
    /\ rElem' = Row(Head(rKeys))
    /\ rPc' = "elem"
    /\ UNCHANGED <<modelVars, transactVars, schemaVars, clientVars, popVars, epVars, runVars, rOp, rKeys, rCap, rErr, result,
                   rModel, rCond, rArg, rOut, rIn>>

\* the scan that ends without an error for Get as for List
ReaderEndNil ==
    /\ rPc = "row"
    /\ rKeys = <<>>
    /\ rErr' = ""
    /\ rPc' = "done"
    /\ UNCHANGED <<modelVars, transactVars, schemaVars, clientVars, popVars, epVars, runVars, rOp, rKeys, rElem, rCap, result,
                   rModel, rCond, rArg, rOut, rIn>>

\* the range over the uuids is over: List and generate return nil, Get
\* returns NotFoundError
ReaderEnd ==
    /\ rPc = "row"
    /\ rKeys = <<>>
    /\ rErr' = IF rOp = "Get" THEN "NotFound" ELSE ""
    /\ rPc' = "done"
    /\ UNCHANGED <<modelVars, transactVars, schemaVars, clientVars, popVars, epVars, runVars, rOp, rKeys, rElem, rCap, result,
                   rModel, rCond, rArg, rOut, rIn>>

\* List that goes on appending when the slice is full
ListElemNoLimit ==
    /\ rPc = "elem"
    /\ rOp = "List"
    /\ IF rElem.kind = "nil"
       THEN rPc' = "panic" /\ UNCHANGED <<result, rKeys>>
       ELSE /\ result' = IF rCond.kind = "none" \/ matches(rCond, Deref(rElem))
                         THEN Append(result, Deref(rElem)) ELSE result
            /\ rKeys' = Tail(rKeys)
            /\ rPc' = "row"
    /\ rElem' = NoElem
    /\ UNCHANGED <<modelVars, transactVars, schemaVars, clientVars, popVars, epVars, runVars, rOp, rCap, rErr, rModel, rCond,
                   rArg, rOut, rIn>>

\* List that appends every instance, whatever the condition says
ListElemUnfiltered ==
    /\ rPc = "elem"
    /\ rOp = "List"
    /\ IF Len(result) >= rCap
       THEN rPc' = "done" /\ UNCHANGED <<result, rKeys>>
       ELSE IF rElem.kind = "nil"
       THEN rPc' = "panic" /\ UNCHANGED <<result, rKeys>>
       ELSE /\ result' = Append(result, Deref(rElem))
            /\ rKeys' = Tail(rKeys)
            /\ rPc' = "row"
    /\ rElem' = NoElem
    /\ UNCHANGED <<modelVars, transactVars, schemaVars, clientVars, popVars, epVars, runVars, rOp, rCap, rErr, rModel, rCond,
                   rArg, rOut, rIn>>

\* List: the slice is full, or the instance does not match the condition,
\* or it is appended to the slice by value
ListElem ==
    /\ rPc = "elem"
    /\ rOp = "List"
    /\ IF Len(result) >= rCap
       THEN rPc' = "done" /\ UNCHANGED <<result, rKeys>>
       ELSE IF rElem.kind = "nil"
       THEN rPc' = "panic" /\ UNCHANGED <<result, rKeys>>
       ELSE /\ result' = IF rCond.kind = "none" \/ matches(rCond, Deref(rElem))
                         THEN Append(result, Deref(rElem)) ELSE result
            /\ rKeys' = Tail(rKeys)
            /\ rPc' = "row"
    /\ rElem' = NoElem
    /\ UNCHANGED <<modelVars, transactVars, schemaVars, clientVars, popVars, epVars, runVars, rOp, rCap, rErr, rModel, rCond,
                   rArg, rOut, rIn>>

\* Get that takes the first instance of the scan without comparing it
GetElemFirst ==
    /\ rPc = "elem"
    /\ rOp = "Get"
    /\ IF rElem.kind = "nil"
       THEN rPc' = "panic" /\ UNCHANGED <<rModel, rKeys>>
       ELSE rModel' = Deref(rElem) /\ rPc' = "done" /\ UNCHANGED rKeys
    /\ rElem' = NoElem
    /\ UNCHANGED <<modelVars, transactVars, schemaVars, clientVars, popVars, epVars, runVars, rOp, rCap, rErr, result, rCond,
                   rArg, rOut, rIn>>

\* Get that fills only the fields the caller left unset
GetElemMerge ==
    /\ rPc = "elem"
    /\ rOp = "Get"
    /\ IF rElem.kind = "nil"
       THEN rPc' = "panic" /\ UNCHANGED <<rModel, rKeys>>
       ELSE IF equalFields(rTable, rModel, Deref(rElem), {})
       THEN /\ rModel' = [f \in DOMAIN rModel |->
                            IF rModel[f] = "" THEN Deref(rElem)[f] ELSE rModel[f]]
            /\ rPc' = "done"
            /\ UNCHANGED rKeys
       ELSE rKeys' = Tail(rKeys) /\ rPc' = "row" /\ UNCHANGED rModel
    /\ rElem' = NoElem
    /\ UNCHANGED <<modelVars, transactVars, schemaVars, clientVars, popVars, epVars, runVars, rOp, rCap, rErr, result, rCond,
                   rArg, rOut, rIn>>

\* Get: the instance is compared with the model and, when equal, copied
\* over the model
GetElem ==
    /\ rPc = "elem"
    /\ rOp = "Get"
    /\ IF rElem.kind = "nil"
       THEN rPc' = "panic" /\ UNCHANGED <<rModel, rKeys>>
       ELSE IF equalFields(rTable, rModel, Deref(rElem), {})
       THEN rModel' = Deref(rElem) /\ rPc' = "done" /\ UNCHANGED rKeys
       ELSE rKeys' = Tail(rKeys) /\ rPc' = "row" /\ UNCHANGED rModel
    /\ rElem' = NoElem
    /\ UNCHANGED <<modelVars, transactVars, schemaVars, clientVars, popVars, epVars, runVars, rOp, rCap, rErr, result, rCond,
                   rArg, rOut, rIn>>

\* generate of a predicate condition that does not ask the predicate
GenerateElemAll ==
    /\ rPc = "elem"
    /\ rOp = "generate"
    /\ IF rElem.kind = "nil"
       THEN rPc' = "panic" /\ UNCHANGED <<rOut, rKeys>>
       ELSE /\ rOut' = Append(rOut, newCondition(rCond.table, Deref(rElem), {}))
            /\ rKeys' = Tail(rKeys)
            /\ rPc' = "row"
    /\ rElem' = NoElem
    /\ UNCHANGED <<modelVars, transactVars, schemaVars, clientVars, popVars, epVars, runVars, rOp, rCap, rErr, result, rModel,
                   rCond, rArg, rIn>>

\* generate of a predicate condition: a condition for the instance when the
\* predicate holds of it
GenerateElem ==
    /\ rPc = "elem"
    /\ rOp = "generate"
    /\ IF rElem.kind = "nil"
       THEN rPc' = "panic" /\ UNCHANGED <<rOut, rKeys>>
       ELSE /\ rOut' = IF matches(rCond, Deref(rElem))
                       THEN Append(rOut, newCondition(rCond.table, Deref(rElem), {}))
                       ELSE rOut
            /\ rKeys' = Tail(rKeys)
            /\ rPc' = "row"
    /\ rElem' = NoElem
    /\ UNCHANGED <<modelVars, transactVars, schemaVars, clientVars, popVars, epVars, runVars, rOp, rCap, rErr, result, rModel,
                   rCond, rArg, rIn>>

\* the call has returned; the caller may make another
ReaderReturn ==
    /\ rPc = "done"
    /\ rPc' = "idle"
    /\ rOp' = ""
    /\ rKeys' = <<>>
    /\ rCap' = 0
    /\ rErr' = ""
    /\ result' = <<>>
    /\ rModel' = NoModel
    /\ rCond' = NoCond
    /\ rArg' = NoModel
    /\ rOut' = <<>>
    /\ rIn' = NoArg
    /\ UNCHANGED <<modelVars, transactVars, schemaVars, clientVars, popVars, epVars, runVars, rElem>>

(***************************************************************************)
(* The client's notification handlers.                                     *)
(***************************************************************************)
\* the handlers a caller registers: the cache, two of the application, and nil
NotificationHandlers == {"cache", "n1", "n2", "nil"}

\* the slice ovs.handlers: the first handlersLen slots of its array
HandlerList == SubSeq(handlers, 1, handlersLen)

\* append(s, h): in the array when it has room, else in a new array of
\* double the capacity; the slots past the length hold nil
appendHandler(arr, len, h) ==
    IF len < Len(arr) THEN [arr EXCEPT ![len + 1] = h]
    ELSE [i \in 1..(IF Len(arr) = 0 THEN 1 ELSE 2 * Len(arr)) |->
            IF i <= len THEN arr[i] ELSE IF i = len + 1 THEN h ELSE "nil"]

\* append(s[:i], s[i+1:]...): the tail moves one slot down in the same
\* array; the slot past the new length keeps what it held
removeHandler(arr, len, i) ==
    [j \in 1..Len(arr) |-> IF j >= i /\ j < len THEN arr[j + 1] ELSE arr[j]]

\* getHandlerIndex returning the last equal handler instead of the first
getHandlerIndexLast(handler, list) ==
    IF \E i \in 1..Len(list) : list[i] = handler
    THEN CHOOSE i \in 1..Len(list) : list[i] = handler /\ \A j \in (i + 1)..Len(list) : list[j] # handler
    ELSE 0

\* getHandlerIndex: the index of the first equal handler, 0 when there is none
getHandlerIndex(handler, list) ==
    IF \E i \in 1..Len(list) : list[i] = handler
    THEN CHOOSE i \in 1..Len(list) : list[i] = handler /\ \A j \in 1..(i - 1) : list[j] # handler
    ELSE 0

\* Register: under the handlers lock, the handler is appended
Register ==
    /\ ~handlersMutex
    /\ nRegistered < MaxHandlers
    /\ nRegistered' = nRegistered + 1
    /\ \E h \in NotificationHandlers :
          handlers' = appendHandler(handlers, handlersLen, h)
    /\ handlersLen' = handlersLen + 1
    /\ IF dPc = "iter" /\ dShared /\ handlersLen >= Len(handlers)
       THEN dShared' = FALSE /\ dSnap' = handlers
       ELSE UNCHANGED <<dShared, dSnap>>
    /\ UNCHANGED <<modelVars, transactVars, schemaVars, popVars, epVars, runVars, readVars, handlersMutex, unregErr, nPc, nKind,
                   nIdx, nLen, nVisited, dPc, dIdx, dLen, dStart, dRemoved, dVisited>>

\* Unregister: under the handlers lock, the first equal handler is removed,
\* or an error is returned
UnregisterCall(handler) ==
    /\ ~handlersMutex
    /\ LET i == getHandlerIndex(handler, HandlerList) IN
          IF i = 0
          THEN /\ unregErr' = "handler not found"
               /\ UNCHANGED <<handlers, handlersLen, dRemoved>>
          ELSE /\ unregErr' = ""
               /\ handlers' = removeHandler(handlers, handlersLen, i)
               /\ handlersLen' = handlersLen - 1
               /\ dRemoved' = IF dPc = "iter" THEN dRemoved \cup {handler} ELSE dRemoved
    /\ UNCHANGED <<modelVars, transactVars, schemaVars, popVars, epVars, runVars, readVars, nRegistered, handlersMutex, nPc, nKind, nIdx, nLen,
                   nVisited, dPc, dIdx, dLen, dShared, dSnap, dStart, dVisited>>

\* Unregister, called with any handler
Unregister == \E handler \in NotificationHandlers : UnregisterCall(handler)

\* update / echo: the callback takes the handlers lock and ranges over the
\* handlers; the connection runs one callback at a time
NotifyBegin ==
    /\ nPc = "idle"
    /\ dPc = "wait"
    /\ ~handlersMutex
    /\ handlersMutex' = TRUE
    /\ \E k \in {"update", "echo"} : nKind' = k
    /\ nIdx' = 1
    /\ nLen' = handlersLen
    /\ nVisited' = <<>>
    /\ nPc' = "iter"
    /\ UNCHANGED <<modelVars, transactVars, schemaVars, popVars, epVars, runVars, readVars, nRegistered, handlers, handlersLen, unregErr,
                   dPc, dIdx, dLen, dShared, dSnap, dStart, dRemoved, dVisited>>

\* update / echo: the next handler is called; a nil handler panics
NotifyCall ==
    /\ nPc = "iter"
    /\ nIdx <= nLen
    /\ IF handlers[nIdx] = "nil"
       THEN nPc' = "panic" /\ UNCHANGED <<nIdx, nVisited>>
       ELSE /\ nVisited' = Append(nVisited, handlers[nIdx])
            /\ nIdx' = nIdx + 1
            /\ UNCHANGED nPc
    /\ UNCHANGED <<modelVars, transactVars, schemaVars, popVars, epVars, runVars, readVars, nRegistered, handlers, handlersLen, handlersMutex,
                   unregErr, nKind, nLen, dPc, dIdx, dLen, dShared, dSnap, dStart, dRemoved,
                   dVisited>>

\* update / echo: the range is over, the lock is released
NotifyEnd ==
    /\ nPc = "iter"
    /\ nIdx > nLen
    /\ handlersMutex' = FALSE
    /\ nPc' = "idle"
    /\ nKind' = ""
    /\ nIdx' = 0
    /\ nLen' = 0
    /\ nVisited' = <<>>
    /\ UNCHANGED <<modelVars, transactVars, schemaVars, popVars, epVars, runVars, readVars, nRegistered, handlers, handlersLen, unregErr,
                   dPc, dIdx, dLen, dShared, dSnap, dStart, dRemoved, dVisited>>

\* newRPC2Client: once the schema is fetched the cache is created and
\* registered, before the client is returned to the caller
newRPC2Client ==
    /\ nRegistered = 0
    /\ ~handlersMutex
    /\ nRegistered' = 1
    /\ handlers' = appendHandler(handlers, handlersLen, "cache")
    /\ handlersLen' = handlersLen + 1
    /\ UNCHANGED <<modelVars, transactVars, schemaVars, popVars, epVars, runVars, readVars, handlersMutex, unregErr, nPc, nKind,
                   nIdx, nLen, nVisited, dPc, dIdx, dLen, dShared, dSnap, dStart, dRemoved, dVisited>>

\* Register, called on the client Connect returned
ConnectedRegister == nRegistered >= 1 /\ Register

\* Unregister, called on the client Connect returned
ConnectedUnregister == nRegistered >= 1 /\ Unregister

\* TableCache.Update were it to hand the updates to a goroutine: the range
\* of update goes on while populate runs
CacheUpdateAsync ==
    /\ nPc = "iter"
    /\ nIdx <= nLen
    /\ nKind = "update"
    /\ handlers[nIdx] = "cache"
    /\ popPc = "idle"
    /\ ~cacheMutex
    /\ cacheMutex' = TRUE
    /\ popPc' = "next"
    /\ popErr' = ""
    /\ nVisited' = Append(nVisited, "cache")
    /\ nIdx' = nIdx + 1
    /\ UNCHANGED <<modelVars, transactVars, schemaVars, epVars, runVars, readVars, cache, cur, todo, nDeltas, version,
                   nApplied, prior, handlers, handlersLen, handlersMutex, unregErr, nRegistered,
                   nPc, nKind, nLen, dPc, dIdx, dLen, dShared, dSnap, dStart, dRemoved,
                   dVisited>>

\* update reaches the cache: TableCache.Update calls populate with the
\* table updates, and the range of update waits for it to return
CacheUpdate ==
    /\ nPc = "iter"
    /\ nIdx <= nLen
    /\ nKind = "update"
    /\ handlers[nIdx] = "cache"
    /\ popPc = "idle"
    /\ ~cacheMutex
    /\ cacheMutex' = TRUE
    /\ popPc' = "next"
    /\ popErr' = ""
    /\ nPc' = "call"
    /\ UNCHANGED <<modelVars, transactVars, schemaVars, epVars, runVars, readVars, cache, cur, todo, nDeltas, version,
                   nApplied, prior, handlers, handlersLen, handlersMutex, unregErr, nRegistered,
                   nKind, nIdx, nLen, nVisited, dPc, dIdx, dLen, dShared, dSnap, dStart,
                   dRemoved, dVisited>>

\* populate has returned, and so TableCache.Update: the range goes on
CacheUpdateReturn ==
    /\ nPc = "call"
    /\ popPc = "idle"
    /\ nVisited' = Append(nVisited, "cache")
    /\ nIdx' = nIdx + 1
    /\ nPc' = "iter"
    /\ UNCHANGED <<modelVars, transactVars, schemaVars, popVars, epVars, runVars, readVars, nRegistered, handlers, handlersLen,
                   handlersMutex, unregErr, nKind, nLen, dPc, dIdx, dLen, dShared, dSnap,
                   dStart, dRemoved, dVisited>>

\* update / echo: the next handler is called, any but the cache on an update
HandlerCall ==
    /\ nPc = "iter"
    /\ nIdx <= nLen
    /\ ~(nKind = "update" /\ handlers[nIdx] = "cache")
    /\ NotifyCall

\* handleDisconnectNotification: the connection is gone; clearConnection
\* evaluates ovs.handlers for its range, without the handlers lock
ClearBegin ==
    /\ dPc = "wait"
    /\ nPc = "idle"
    /\ dIdx' = 1
    /\ dLen' = handlersLen
    /\ dShared' = TRUE
    /\ dStart' = HandlerList
    /\ dPc' = "iter"
    /\ UNCHANGED <<modelVars, transactVars, schemaVars, popVars, epVars, runVars, readVars, nRegistered, handlers, handlersLen, handlersMutex,
                   unregErr, nPc, nKind, nIdx, nLen, nVisited, dSnap, dRemoved, dVisited>>

\* the array clearConnection ranges over
ClearArray == IF dShared THEN handlers ELSE dSnap

\* clearConnection: the next slot is read and, unless nil, its handler called
ClearCall ==
    /\ dPc = "iter"
    /\ dIdx <= dLen
    /\ dVisited' = IF ClearArray[dIdx] # "nil" THEN Append(dVisited, ClearArray[dIdx])
                   ELSE dVisited
    /\ dIdx' = dIdx + 1
    /\ UNCHANGED <<modelVars, transactVars, schemaVars, popVars, epVars, runVars, readVars, nRegistered, handlers, handlersLen, handlersMutex,
                   unregErr, nPc, nKind, nIdx, nLen, nVisited, dPc, dLen, dShared, dSnap,
                   dStart, dRemoved>>

\* clearConnection: the range is over
ClearEnd ==
    /\ dPc = "iter"
    /\ dIdx > dLen
    /\ dPc' = "done"
    /\ UNCHANGED <<modelVars, transactVars, schemaVars, popVars, epVars, runVars, readVars, nRegistered, handlers, handlersLen, handlersMutex,
                   unregErr, nPc, nKind, nIdx, nLen, nVisited, dIdx, dLen, dShared, dSnap,
                   dStart, dRemoved, dVisited>>

(***************************************************************************)
(* The schema: the types of the columns.                                   *)
(***************************************************************************)
\* the atomic types of RFC 7047 and the ExtendedTypes
AtomicTypes == {"integer", "real", "boolean", "string", "uuid"}
ExtendedTypes == AtomicTypes \cup {"enum", "set", "map"}

\* Unlimited: the Max of "unlimited"
Unlimited == -1

\* the "key" of a type object as the server may send it: absent, a JSON
\* value that is neither a string nor a base type, a string, or a base
\* type with or without an enumeration, one that decodes or one that does not
RawKeys ==
    {[form |-> f, type |-> "", enum |-> "none"] : f \in {"absent", "bad"}}
    \cup {[form |-> "string", type |-> t, enum |-> "none"] : t \in {"string", "uuid", "blob"}}
    \cup {[form |-> "object", type |-> t, enum |-> e] :
            t \in {"string", "uuid"}, e \in {"none", "ok", "bad"}}

\* the "value" of a type object
RawValues ==
    {[form |-> f, type |-> ""] : f \in {"absent", "bad"}}
    \cup {[form |-> "string", type |-> t] : t \in {"string", "uuid"}}

\* the "type" of a column: a string, a type object, or another JSON value;
\* "min" is absent, 0 or not an integer; "max" is absent, "unlimited", the
\* integer 2, the string "many" or neither an integer nor a string
RawTypes ==
    {[shape |-> "string", name |-> t, key |-> [form |-> "absent", type |-> "", enum |-> "none"],
      value |-> [form |-> "absent", type |-> ""], min |-> "absent", max |-> "absent"] :
        t \in AtomicTypes \cup {"blob"}}
    \cup {[shape |-> "other", name |-> "", key |-> [form |-> "absent", type |-> "", enum |-> "none"],
           value |-> [form |-> "absent", type |-> ""], min |-> "absent", max |-> "absent"]}
    \cup [shape : {"object"}, name : {""}, key : RawKeys, value : RawValues,
          min : {"absent", "0", "bad"},
          max : {"absent", "unlimited", "2", "many", "bad"}]

\* a string column, a set of strings, an enumeration that decodes and one
\* that does not, a map, and a type that is a number
FewRawTypes ==
    {r \in RawTypes :
        \/ r.shape = "string" /\ r.name = "string"
        \/ r.shape = "other"
        \/ /\ r.shape = "object"
           /\ r.min = "0"
           /\ r.max = "unlimited"
           /\ \/ r.key.form = "string" /\ r.key.type = "string"
                    /\ r.value.form \in {"absent", "string"} /\ r.value.type \in {"", "string"}
              \/ r.key.form = "object" /\ r.key.type = "string" /\ r.key.enum \in {"ok", "bad"}
                    /\ r.value.form = "absent"}

\* a column before its type is resolved
NoColumn == [Type |-> "", obj |-> FALSE, keyType |-> "", valueType |-> "", min |-> 0, max |-> 0]

\* the TypeObj the type object decodes to: Min and Max are 1 unless given
TypeObjOf(raw) ==
    [NoColumn EXCEPT !.obj = TRUE,
                     !.keyType = raw.key.type,
                     !.valueType = raw.value.type,
                     !.min = IF raw.min = "0" THEN 0 ELSE 1,
                     !.max = IF raw.max = "unlimited" THEN Unlimited
                             ELSE IF raw.max = "2" THEN 2 ELSE 1]

\* ColumnSchema.Unmarshal that looks at min and max before the enumeration
ColumnUnmarshalEnumLast(raw) ==
    IF raw.shape = "string" THEN [err |-> "", col |-> [NoColumn EXCEPT !.Type = raw.name]]
    ELSE IF raw.shape # "object" \/ raw.min = "bad" THEN [err |-> "error", col |-> NoColumn]
    ELSE IF raw.max \in {"many", "bad"} THEN [err |-> "error", col |-> NoColumn]
    ELSE IF raw.key.form = "absent" THEN [err |-> "panic", col |-> NoColumn]
    ELSE IF raw.key.form = "bad" THEN [err |-> "error", col |-> NoColumn]
    ELSE IF raw.value.form = "bad" THEN [err |-> "error", col |-> NoColumn]
    ELSE IF raw.value.form # "absent"
    THEN [err |-> "", col |-> [TypeObjOf(raw) EXCEPT !.Type = "map"]]
    ELSE IF TypeObjOf(raw).min = 1 /\ TypeObjOf(raw).max = 1
    THEN [err |-> "", col |-> [TypeObjOf(raw) EXCEPT !.Type = raw.key.type]]
    ELSE IF raw.key.enum = "bad" THEN [err |-> "", col |-> TypeObjOf(raw)]
    ELSE IF raw.key.enum = "ok"
    THEN [err |-> "", col |-> [TypeObjOf(raw) EXCEPT !.Type = "enum"]]
    ELSE [err |-> "", col |-> [TypeObjOf(raw) EXCEPT !.Type = "set"]]

\* ColumnSchema.Unmarshal: the error it returns ("panic" for the nil
\* KeyMsg it dereferences) and the column as it leaves it
ColumnUnmarshal(raw) ==
    IF raw.shape = "string" THEN [err |-> "", col |-> [NoColumn EXCEPT !.Type = raw.name]]
    ELSE IF raw.shape # "object" \/ raw.min = "bad" THEN [err |-> "error", col |-> NoColumn]
    ELSE IF raw.max \in {"many", "bad"} THEN [err |-> "error", col |-> NoColumn]
    ELSE IF raw.key.form = "absent" THEN [err |-> "panic", col |-> NoColumn]
    ELSE IF raw.key.form = "bad" THEN [err |-> "error", col |-> NoColumn]
    ELSE IF raw.value.form = "bad" THEN [err |-> "error", col |-> NoColumn]
    ELSE IF raw.value.form # "absent"
    THEN [err |-> "", col |-> [TypeObjOf(raw) EXCEPT !.Type = "map"]]
    ELSE IF raw.key.enum = "bad" THEN [err |-> "", col |-> TypeObjOf(raw)]
    ELSE IF raw.key.enum = "ok"
    THEN [err |-> "", col |-> [TypeObjOf(raw) EXCEPT !.Type = "enum"]]
    ELSE IF TypeObjOf(raw).min = 1 /\ TypeObjOf(raw).max = 1
    THEN [err |-> "", col |-> [TypeObjOf(raw) EXCEPT !.Type = raw.key.type]]
    ELSE [err |-> "", col |-> [TypeObjOf(raw) EXCEPT !.Type = "set"]]

\* the sequence s with x put in at position p
InsertAt(s, p, x) == SubSeq(s, 1, p - 1) \o <<x>> \o SubSeq(s, p, Len(s))

\* DatabaseSchema.Unmarshal, step 1: the outer structure decodes, or does
\* not; the columns wait for their types to be resolved
SchemaUnmarshal ==
    /\ schPc = "none"
    /\ \/ /\ schPc' = "error"
          /\ UNCHANGED schIn
       \/ /\ schPc' = "columns"
          /\ \E n \in 1..MaxColumns, r \in RawTypes :
               \E f \in [1..(n - 1) -> FewRawTypes], p \in 1..n : schIn' = InsertAt(f, p, r)
    /\ UNCHANGED <<schCols, cv, modelVars, transactVars, popVars, epVars, runVars, readVars, clientVars>>

\* step 2, for the next column: column.Unmarshal(), whose error ends the
\* parse
SchemaColumn ==
    /\ schPc = "columns"
    /\ schIn # <<>>
    /\ LET u == ColumnUnmarshal(Head(schIn))
       IN  IF u.err = ""
           THEN /\ schCols' = Append(schCols, [raw |-> Head(schIn), col |-> u.col])
                /\ schIn' = Tail(schIn)
                /\ UNCHANGED schPc
           ELSE /\ schPc' = u.err
                /\ UNCHANGED <<schIn, schCols>>
    /\ UNCHANGED <<cv, modelVars, transactVars, popVars, epVars, runVars, readVars, clientVars>>

\* every column is resolved: return nil
SchemaEnd ==
    /\ schPc = "columns"
    /\ schIn = <<>>
    /\ schPc' = "ok"
    /\ UNCHANGED <<schIn, schCols, cv, modelVars, transactVars, popVars, epVars, runVars, readVars, clientVars>>

(***************************************************************************)
(* The conversions between the values of the wire and the native values.   *)
(***************************************************************************)
\* nativeTypeFromExtended: the Go type that holds an atomic type, "" for
\* its error
nativeTypeFromExtended(extended) ==
    CASE extended = "integer" -> "int"
      [] extended = "real" -> "float64"
      [] extended = "boolean" -> "bool"
      [] extended \in {"string", "uuid"} -> "string"
      [] OTHER -> ""

\* NativeType: the Go type that holds the value of a column, "" for its
\* error
NativeType(column) ==
    CASE column.Type \in AtomicTypes -> nativeTypeFromExtended(column.Type)
      [] column.Type = "enum" -> nativeTypeFromExtended(column.keyType)
      [] column.Type = "map" ->
            IF nativeTypeFromExtended(column.keyType) = "" THEN ""
            ELSE IF nativeTypeFromExtended(column.valueType) = "" THEN ""
            ELSE "map[" \o nativeTypeFromExtended(column.keyType) \o "]"
                    \o nativeTypeFromExtended(column.valueType)
      [] column.Type = "set" ->
            IF nativeTypeFromExtended(column.keyType) = "" THEN ""
            ELSE "[]" \o nativeTypeFromExtended(column.keyType)
      [] OTHER -> ""

\* the Go values of the atomic types
Scalars ==
    {[NoValue EXCEPT !.k = "string", !.v = <<"a">>],
     [NoValue EXCEPT !.k = "int", !.v = <<"1">>],
     [NoValue EXCEPT !.k = "float64", !.v = <<"1">>],
     [NoValue EXCEPT !.k = "bool", !.v = <<"true">>]}

\* what a set or a map holds: up to two strings
Contents == {<<>>, <<"a">>, <<"a", "b">>}

\* the native values: nil, a scalar, a slice of strings, a map of strings
NativeValues ==
    {NoValue}
    \cup Scalars
    \cup {[NoValue EXCEPT !.k = "[]string", !.v = c] : c \in Contents}
    \cup {[NoValue EXCEPT !.k = "map[string]string", !.v = c] : c \in {<<>>, <<"a", "b">>}}

\* the dynamic types of what is in an OvsSet or OvsMap
ElemKinds == {"string", "UUID"}

\* the values a row of the wire decodes to: a scalar, a UUID, an OvsSet of
\* strings or of UUIDs, an OvsMap
WireValues ==
    Scalars
    \cup {[NoValue EXCEPT !.k = "UUID", !.v = <<"a">>]}
    \cup {[NoValue EXCEPT !.k = "OvsSet"]}
    \cup {[NoValue EXCEPT !.k = "OvsSet", !.e = e, !.v = c] : e \in ElemKinds, c \in Contents \ {<<>>}}
    \cup {[NoValue EXCEPT !.k = "OvsMap"]}
    \cup {[NoValue EXCEPT !.k = "OvsMap", !.e = e, !.f = f, !.v = <<"a", "b">>] :
            e \in ElemKinds, f \in ElemKinds}

\* NativeValueOf of an element of dynamic type kind: "" when it converts,
\* "error" when a uuid is not a UUID, "panic" when reflect cannot put the
\* value it returns into a container of strings
NativeValueOf(kind, elemType) ==
    IF elemType = "uuid" THEN (IF kind = "UUID" THEN "" ELSE "error")
    ELSE IF kind = "string" THEN "" ELSE "panic"

\* the outcome of converting the elements, then the values, of a container
Both(a, b) == IF a # "" THEN a ELSE b

\* OvsToNative: the error and the native value
OvsToNative(column, ovsElem) ==
    LET fail(e) == [err |-> e, out |-> NoValue]
        native == [NoValue EXCEPT !.k = NativeType(column), !.v = ovsElem.v]
    IN  IF NativeType(column) = "" THEN fail("error")
        ELSE IF column.Type \in {"integer", "real", "string", "boolean", "enum"}
        THEN [err |-> "", out |-> ovsElem]
        ELSE IF column.Type = "uuid"
        THEN IF ovsElem.k = "UUID"
             THEN [err |-> "", out |-> [NoValue EXCEPT !.k = "string", !.v = ovsElem.v]]
             ELSE fail("error")
        ELSE IF column.Type = "set"
        THEN IF ovsElem.k # "OvsSet" THEN fail("error")
             ELSE IF ovsElem.v = <<>> THEN [err |-> "", out |-> native]
             ELSE IF NativeValueOf(ovsElem.e, column.keyType) # ""
             THEN fail(NativeValueOf(ovsElem.e, column.keyType))
             ELSE [err |-> "", out |-> native]
        ELSE IF ovsElem.k # "OvsMap" THEN fail("error")
             ELSE IF ovsElem.v = <<>> THEN [err |-> "", out |-> native]
             ELSE IF Both(NativeValueOf(ovsElem.e, column.keyType),
                          NativeValueOf(ovsElem.f, column.valueType)) # ""
             THEN fail(Both(NativeValueOf(ovsElem.e, column.keyType),
                            NativeValueOf(ovsElem.f, column.valueType)))
             ELSE [err |-> "", out |-> native]

\* NewOvsSet: a pointer to the OvsSet of the elements of a slice
NewOvsSet(obj) ==
    [NoValue EXCEPT !.k = "*OvsSet", !.e = IF obj.v = <<>> THEN "" ELSE "string", !.v = obj.v]

\* NewOvsMap: a pointer to the OvsMap of the entries of a map
NewOvsMap(obj) ==
    [NoValue EXCEPT !.k = "*OvsMap",
                    !.e = IF obj.v = <<>> THEN "" ELSE "string",
                    !.f = IF obj.v = <<>> THEN "" ELSE "string",
                    !.v = obj.v]

\* NativeToOvs: the error and the value for the wire; "panic" for the
\* t.String() of the nil reflect.Type of a nil value
NativeToOvs(column, rawElem) ==
    IF NativeType(column) = "" THEN [err |-> "error", out |-> NoValue]
    ELSE IF rawElem.k = "nil" THEN [err |-> "panic", out |-> NoValue]
    ELSE IF rawElem.k # NativeType(column) THEN [err |-> "error", out |-> NoValue]
    ELSE IF column.Type \in {"integer", "real", "string", "boolean", "enum"}
    THEN [err |-> "", out |-> rawElem]
    ELSE IF column.Type = "uuid"
    THEN [err |-> "", out |-> [NoValue EXCEPT !.k = "UUID", !.v = rawElem.v]]
    ELSE IF column.Type = "set"
    THEN IF column.keyType = "uuid"
         THEN [err |-> "", out |-> [NoValue EXCEPT !.k = "*OvsSet",
                                        !.e = IF rawElem.v = <<>> THEN "" ELSE "UUID",
                                        !.v = rawElem.v]]
         ELSE [err |-> "", out |-> NewOvsSet(rawElem)]
    ELSE [err |-> "", out |-> NewOvsMap(rawElem)]

\* a caller converts a native value for the first column of the schema
NativeToOvsCall ==
    /\ schPc = "ok"
    /\ cv = NoConversion
    /\ \E x \in NativeValues :
         cv' = [dir |-> "NativeToOvs", col |-> 1, in |-> x,
                out |-> NativeToOvs(schCols[1].col, x).out,
                err |-> NativeToOvs(schCols[1].col, x).err]
    /\ UNCHANGED <<schPc, schIn, schCols, modelVars, transactVars, popVars, epVars, runVars, readVars, clientVars>>

\* a caller converts a value of the wire for the first column of the schema
OvsToNativeCall ==
    /\ schPc = "ok"
    /\ cv = NoConversion
    /\ \E w \in WireValues :
         cv' = [dir |-> "OvsToNative", col |-> 1, in |-> w,
                out |-> OvsToNative(schCols[1].col, w).out,
                err |-> OvsToNative(schCols[1].col, w).err]
    /\ UNCHANGED <<schPc, schIn, schCols, modelVars, transactVars, popVars, epVars, runVars, readVars, clientVars>>

\* the caller is done with what the conversion returned
ConversionReturn ==
    /\ cv # NoConversion
    /\ cv' = NoConversion
    /\ UNCHANGED <<schPc, schIn, schCols, modelVars, transactVars, popVars, epVars, runVars, readVars, clientVars>>

(***************************************************************************)
(* The database model: which type stands for which table.                  *)
(***************************************************************************)
\* the types a caller passes to NewDBModel, each with the kind of the type,
\* the table its Table() returns, and how many of its fields tagged
\* ovs:"_uuid" are strings and how many are not: modelA, modelB and
\* modelInvalid of the tests, a second type for the table of modelA, a
\* struct with an integer _uuid, a struct with two string _uuid fields, a
\* struct that is a Model itself, and a pointer to what is not a struct
ModelTypes ==
    [modelA       |-> [kind |-> "ptrstruct", table |-> "Test_A", uuids |-> 1, others |-> 0],
     modelB       |-> [kind |-> "ptrstruct", table |-> "Test_B", uuids |-> 1, others |-> 0],
     modelInvalid |-> [kind |-> "ptrstruct", table |-> "Test_Invalid", uuids |-> 0, others |-> 0],
     modelA2      |-> [kind |-> "ptrstruct", table |-> "Test_A", uuids |-> 1, others |-> 0],
     modelInt     |-> [kind |-> "ptrstruct", table |-> "Test_Int", uuids |-> 0, others |-> 1],
     modelTwo     |-> [kind |-> "ptrstruct", table |-> "Test_Two", uuids |-> 2, others |-> 0],
     modelValue   |-> [kind |-> "struct", table |-> "Test_Value", uuids |-> 1, others |-> 0],
     modelNamed   |-> [kind |-> "ptr", table |-> "Test_Named", uuids |-> 0, others |-> 0]]

\* the table names a caller may ask for
TableNames == {ModelTypes[t].table : t \in DOMAIN ModelTypes} \cup {"Unknown"}

\* NewDBModel, the check of one model: hasUUID
hasUUID(t) == ModelTypes[t].uuids > 0

\* NewDBModel, the check of one model: the error it returns for it, or none
modelError(t) ==
    IF ModelTypes[t].kind = "struct" THEN "pointer to struct"
    ELSE IF ModelTypes[t].kind = "ptr" THEN "pointer to struct"
    ELSE IF ~hasUUID(t) THEN "UUID"
    ELSE ""

\* types[model.Table()] = reflect.TypeOf(model)
SetType(types, t) ==
    [n \in DOMAIN types \cup {ModelTypes[t].table} |->
        IF n = ModelTypes[t].table THEN t ELSE types[n]]

\* NewDBModel: the loop over the models, from the types gathered so far;
\* the error it returns, and the types of the DBModel when there is none
RECURSIVE NewDBModel(_, _)
NewDBModel(models, types) ==
    IF models = <<>> THEN [err |-> "", types |-> types]
    ELSE IF modelError(Head(models)) # "" THEN [err |-> modelError(Head(models)), types |-> <<>>]
    ELSE NewDBModel(Tail(models), SetType(types, Head(models)))

\* the lists of up to MaxModels types
ModelLists == UNION {[1..n -> DOMAIN ModelTypes] : n \in 0..MaxModels}

\* a caller builds the database model
NewDBModelCall ==
    /\ dbPc = "none"
    /\ \E models \in ModelLists :
         /\ dbModels' = models
         /\ dbTypes' = NewDBModel(models, <<>>).types
         /\ dbPc' = IF NewDBModel(models, <<>>).err = "" THEN "ok" ELSE "error"
    /\ UNCHANGED <<dbCall, transactVars, schemaVars, popVars, epVars, runVars, readVars, clientVars>>

\* DBModel.newModel that takes the type of any table when the table is not
\* there
newModelAny(types, table) ==
    IF table \notin DOMAIN types /\ types = <<>> THEN [err |-> "not found", out |-> ""]
    ELSE IF table \notin DOMAIN types
    THEN [err |-> "", out |-> types[CHOOSE n \in DOMAIN types : TRUE]]
    ELSE [err |-> "", out |-> types[table]]

\* DBModel.newModel: the error, or the type of the new instance it returns,
\* whose fields are all zero
DBModelNewModel(types, table) ==
    IF table \notin DOMAIN types THEN [err |-> "not found", out |-> ""]
    ELSE [err |-> "", out |-> types[table]]

\* DBModel.FindTable: the table whose type is mType, or ""
DBModelFindTable(types, mType) ==
    IF \E n \in DOMAIN types : types[n] = mType
    THEN CHOOSE n \in DOMAIN types : types[n] = mType
    ELSE ""

\* a caller asks the model for a new instance for a table
NewModelCall ==
    /\ dbPc = "ok"
    /\ dbCall = NoCall
    /\ \E table \in TableNames :
         dbCall' = [op |-> "newModel", arg |-> table,
                    out |-> DBModelNewModel(dbTypes, table).out,
                    err |-> DBModelNewModel(dbTypes, table).err]
    /\ UNCHANGED <<dbPc, dbModels, dbTypes, transactVars, schemaVars, popVars, epVars, runVars,
                   readVars, clientVars>>

\* a caller asks the model for the table of a type
FindTableCall ==
    /\ dbPc = "ok"
    /\ dbCall = NoCall
    /\ \E mType \in DOMAIN ModelTypes :
         dbCall' = [op |-> "FindTable", arg |-> mType,
                    out |-> DBModelFindTable(dbTypes, mType), err |-> ""]
    /\ UNCHANGED <<dbPc, dbModels, dbTypes, transactVars, schemaVars, popVars, epVars, runVars,
                   readVars, clientVars>>

\* the caller is done with what the model returned
ModelReturn ==
    /\ dbCall # NoCall
    /\ dbCall' = NoCall
    /\ UNCHANGED <<dbPc, dbModels, dbTypes, transactVars, schemaVars, popVars, epVars, runVars,
                   readVars, clientVars>>

(***************************************************************************)
(* Transactions.                                                           *)
(***************************************************************************)
\* the operations a caller passes to Transact: on a table of the schema or
\* on another, with columns of the table, _uuid, _version or an unknown
\* column in their row, in one of their rows or in their columns
Operations ==
    {op \in [table : Tables \cup {"Unknown"},
             row : {{}, {"foo"}, {"foo", "_uuid"}, {"bogus"}},
             rows : {<<>>, <<{"foo"}, {"_version"}>>, <<{"foo"}, {"bogus"}>>},
             columns : {<<>>, <<"foo", "_uuid">>, <<"bar", "bogus">>}] :
        Cardinality({f \in {"row", "rows", "columns"} :
                        (f = "row" /\ op.row # {}) \/ (f = "rows" /\ op.rows # <<>>)
                            \/ (f = "columns" /\ op.columns # <<>>)}) <= 1}

\* the lists of up to MaxOps operations
OperationLists == UNION {[1..n -> Operations] : n \in 0..MaxOps}

\* validateOperations, the check of a column name against a table
validColumn(table, column) == column \in Columns \/ column \in {"_uuid", "_version"}

\* validateOperations that does not look at the rows of an operation
validateOperationsRowOnly(operations) ==
    \A i \in DOMAIN operations :
        /\ operations[i].table \in Tables
        /\ \A column \in operations[i].row : validColumn(operations[i].table, column)
        /\ \A c \in DOMAIN operations[i].columns :
                validColumn(operations[i].table, operations[i].columns[c])

\* validateOperations: every operation is on a table of the schema and
\* names, in its row, its rows and its columns, columns of that table,
\* _uuid or _version
validateOperations(operations) ==
    \A i \in DOMAIN operations :
        /\ operations[i].table \in Tables
        /\ \A column \in operations[i].row : validColumn(operations[i].table, column)
        /\ \A r \in DOMAIN operations[i].rows :
                \A column \in operations[i].rows[r] : validColumn(operations[i].table, column)
        /\ \A c \in DOMAIN operations[i].columns :
                validColumn(operations[i].table, operations[i].columns[c])

\* Transact: the operations are validated, then sent in one call whose
\* error, if any, is returned
Transact ==
    /\ txPc = "idle"
    /\ \E operations \in OperationLists :
         /\ txOps' = operations
         /\ IF ~validateOperations(operations)
            THEN /\ txErr' = "validation"
                 /\ UNCHANGED rpcCalls
            ELSE /\ rpcCalls' = Append(rpcCalls, [method |-> "transact", ops |-> operations])
                 /\ \E err \in {"", "rpc"} : txErr' = err
    /\ txPc' = "done"
    /\ UNCHANGED <<modelVars, schemaVars, popVars, epVars, runVars, readVars, clientVars>>

\* the caller is done with what Transact returned
TransactReturn ==
    /\ txPc = "done"
    /\ txPc' = "idle"
    /\ txOps' = <<>>
    /\ txErr' = ""
    /\ rpcCalls' = <<>>
    /\ UNCHANGED <<modelVars, schemaVars, popVars, epVars, runVars, readVars, clientVars>>

Next ==
    \/ PopulateBegin
    \/ PopulateTakeFew
    \/ PopulateApply
    \/ PopulateModify
    \/ PopulateSetField
    \/ PopulateAddEvent
    \/ PopulateEnd
    \/ AddEventHandler
    \/ RunStop
    \/ RunReceive
    \/ RunCall
    \/ RunDone
    \/ Disconnect

Spec == Init /\ [][Next]_vars

\* the table cache alone, fed every delta, its dispatch loop not started
NextCache ==
    \/ PopulateBegin
    \/ PopulateTake
    \/ PopulateApply
    \/ PopulateModify
    \/ PopulateSetField
    \/ PopulateAddEvent
    \/ PopulateEnd

SpecCache == Init /\ [][NextCache]_vars

\* the dispatch flow of the event processor
RunStep == RunStop \/ RunReceive \/ RunCall \/ RunDone

\* the steps of a populate that has begun
PopulateStep ==
    PopulateApply \/ PopulateModify \/ PopulateSetField \/ PopulateAddEvent \/ PopulateEnd

\* the connection from its start to after Disconnect: notifications are
\* ingested while the rpc client is open, the dispatch flow runs until it
\* sees the lifecycle channel closed
NextLifecycle ==
    \/ UpdateBegin
    \/ UpdateTake
    \/ PopulateStep
    \/ AddEventHandler
    \/ RunStep
    \/ Disconnect
    \/ RpcClose

\* the goroutines of the dispatch flow, of a notification being handled and
\* of Disconnect are scheduled
SpecLifecycle ==
    /\ Init
    /\ [][NextLifecycle]_vars
    /\ WF_vars(RunStep)
    /\ WF_vars(PopulateStep)
    /\ WF_vars(RpcClose)

\* populate of batches in which a delta may not decode
NextMalformed ==
    \/ PopulateBegin
    \/ PopulateTakeBad
    \/ PopulateSkip
    \/ PopulateApply
    \/ PopulateModify
    \/ PopulateSetField
    \/ PopulateAddEvent
    \/ PopulateEnd

SpecMalformed == Init /\ [][NextMalformed]_vars

\* the ingestion flow and a caller of the query API
NextReaders ==
    \/ PopulateBegin
    \/ PopulateTakeRows
    \/ PopulateApply
    \/ PopulateModify
    \/ PopulateSetField
    \/ PopulateAddEvent
    \/ PopulateEnd
    \/ ListBegin
    \/ GetBegin
    \/ ReaderRows
    \/ ReaderRow
    \/ ReaderEnd
    \/ ListElem
    \/ GetElem
    \/ ReaderReturn

SpecReaders == Init /\ [][NextReaders]_vars

\* a populate call made while no query is under way
ApiPopulateBegin == rPc = "idle" /\ rCond = NoCond /\ nDeltas < ApiDeltas /\ PopulateBegin

\* the next delta of such a call
ApiPopulateTake == nDeltas < ApiDeltas /\ PopulateTakeRows

\* the query API on a cache that is not written during a call: the calls
\* of one goroutine that populates the cache and queries it in turn
NextAPI ==
    \/ ApiPopulateBegin
    \/ ApiPopulateTake
    \/ PopulateApply
    \/ PopulateModify
    \/ PopulateSetField
    \/ PopulateAddEvent
    \/ PopulateEnd
    \/ Where
    \/ ListBegin
    \/ GetAny
    \/ Create
    \/ GenerateBegin
    \/ ReaderRows
    \/ ReaderRow
    \/ ReaderEnd
    \/ ListElem
    \/ GetElem
    \/ GenerateElem
    \/ ReaderReturn

SpecAPI == Init /\ [][NextAPI]_vars

\* the query API called with arguments of every shape, on a cache that is
\* not written during a call
NextShapes ==
    \/ ApiPopulateBegin
    \/ ApiPopulateTake
    \/ PopulateStep
    \/ WhereArg
    \/ ListArg
    \/ GetArg
    \/ ReaderRows
    \/ ReaderRow
    \/ ReaderEnd
    \/ ListElem
    \/ GetElem
    \/ ReaderReturn

SpecShapes == Init /\ [][NextShapes]_vars

\* conditions are built from arguments of every shape and generate is
\* called on them, on a cache that is not written during a call
NextGenerate ==
    \/ ApiPopulateBegin
    \/ ApiPopulateTake
    \/ PopulateStep
    \/ WhereArg
    \/ GenerateBegin
    \/ ReaderRows
    \/ ReaderRow
    \/ ReaderEnd
    \/ GenerateElem
    \/ ReaderReturn

SpecGenerate == Init /\ [][NextGenerate]_vars

\* the schema is parsed and values are converted by its columns
NextSchema ==
    \/ SchemaUnmarshal
    \/ SchemaColumn
    \/ SchemaEnd
    \/ NativeToOvsCall
    \/ OvsToNativeCall
    \/ ConversionReturn

SpecSchema == Init /\ [][NextSchema]_vars

\* the database model is built and asked
NextModel ==
    \/ NewDBModelCall
    \/ NewModelCall
    \/ FindTableCall
    \/ ModelReturn

SpecModel == Init /\ [][NextModel]_vars

\* transactions are made
NextTransact ==
    \/ Transact
    \/ TransactReturn

SpecTransact == Init /\ [][NextTransact]_vars

\* the callers that register and unregister handlers, and the deliveries
NextClient ==
    \/ Register
    \/ Unregister
    \/ NotifyBegin
    \/ NotifyCall
    \/ NotifyEnd
    \/ ClearBegin
    \/ ClearCall
    \/ ClearEnd

SpecClient == Init /\ [][NextClient]_vars

\* The client Connect returned: the cache is registered, callers register
\* and unregister handlers, and the update and echo notifications arrive;
\* on an update the cache applies the table updates.
NextConnected ==
    \/ newRPC2Client
    \/ ConnectedRegister
    \/ ConnectedUnregister
    \/ NotifyBegin
    \/ CacheUpdate
    \/ UpdateTake
    \/ PopulateApply
    \/ PopulateModify
    \/ PopulateSetField
    \/ PopulateAddEvent
    \/ PopulateEnd
    \/ CacheUpdateReturn
    \/ HandlerCall
    \/ NotifyEnd

SpecConnected == Init /\ [][NextConnected]_vars

\* The callers of Register and Unregister alone, no notification under way.
NextRegistration ==
    \/ Register
    \/ Unregister

SpecRegistration == Init /\ [][NextRegistration]_vars

(***************************************************************************)
(* Properties of the event processor and the dispatch loop.                *)
(***************************************************************************)
SeqsOf(q) == {q[i].seq : i \in 1..Len(q)}

\* C1: the queue never holds more than Capacity events, and an AddEvent
\* issued while it holds Capacity events leaves its contents unchanged: that
\* event is not queued and no observer is ever called with it.
C1_BoundedDropOnFull ==
    /\ [](Len(events) <= Capacity)
    /\ [][(nSubmitted' # nSubmitted /\ Len(events) = Capacity) => events' = events]_vars
    /\ [](\A s \in dropped : s \notin SeqsOf(events) /\ s \notin SeqsOf(calls) /\ event.seq # s)

\* an event was dropped on a full queue after others had been delivered
C1_Witness == dropped # {} /\ Len(events) = Capacity /\ calls # <<>>

\* C2: the callbacks follow the order in which the deltas were applied: all
\* callbacks for an earlier event precede every callback for a later one,
\* and only events that were submitted are delivered.
C2_DeliveryOrder ==
    /\ \A i, j \in 1..Len(calls) : i < j => calls[i].seq <= calls[j].seq
    /\ \A i \in 1..Len(calls) : calls[i].seq \in 1..nDeltas

\* two events were delivered, one of them to two observers, after a drop
C2_Witness ==
    /\ Len(calls) >= 3
    /\ calls[1].seq < calls[Len(calls)].seq
    /\ dropped # {}

\* C3: AddEvent never waits: whatever the queue and the dispatch loop are
\* doing, a populate that has begun can take its next step.
C3_AddEventNeverWaits ==
    popPc # "idle" =>
        ENABLED (PopulateTakeFew \/ PopulateApply \/ PopulateModify \/ PopulateSetField
                 \/ PopulateAddEvent \/ PopulateEnd)

\* populate submits an event while the queue is full and an observer
\* callback is in progress
C3_Witness ==
    /\ popPc = "enqueue"
    /\ Len(events) = Capacity
    /\ runPc = "deliver"
    /\ idx <= Len(observers)

\* the event type the delta's rows call for
KindOfDelta(d) ==
    IF d.old = EmptyRow THEN addEvent
    ELSE IF d.new # EmptyRow THEN updateEvent
    ELSE deleteEvent

\* C6: every applied delta has exactly one event submitted, of the type its
\* rows determine (add: no old row; update: old and new row; delete: old row
\* and no new row), and a delta that is not applied has none.
C6_OneEventPerDelta ==
    /\ [](/\ nSubmitted <= nApplied
          /\ nApplied <= nSubmitted + 1
          /\ (popPc \in {"idle", "next"} => nSubmitted = nApplied))
    /\ [][nSubmitted' # nSubmitted =>
            /\ nSubmitted' = nSubmitted + 1
            /\ Applicable(cur)
            /\ version = cur.seq
            /\ lastEv' = [seq |-> cur.seq, eventType |-> KindOfDelta(cur),
                          table |-> cur.table, uuid |-> cur.uuid]]_vars

\* one of the deltas taken was not applied, and the last event submitted is
\* an update
C6_Witness ==
    /\ popPc = "next"
    /\ nDeltas = nSubmitted + 1
    /\ nSubmitted >= 2
    /\ lastEv.eventType = updateEvent

\* C7: while the observers are called with an event, the delta that produced
\* it is already applied to the cache.
C7_AppliedBeforeObserved ==
    /\ runPc = "deliver" => event.seq <= version
    /\ \A i \in 1..Len(events) : events[i].seq <= version

\* an observer is about to be called with an event while the cache already
\* holds a later delta
C7_Witness ==
    /\ runPc = "deliver"
    /\ idx <= Len(observers)
    /\ OnEvent(observers[idx], event.eventType)
    /\ event.seq < version

\* the positions of the observers called so far with the event numbered s
CalledWith(s) ==
    LET cs == SelectSeq(calls, LAMBDA c : c.seq = s)
    IN [i \in 1..Len(cs) |-> cs[i].pos]

\* the first n observers that have a function for the event type, in
\* registration order
WithFunc(n, eventType) ==
    SelectSeq([p \in 1..n |-> p], LAMBDA p : eventType \in EventHandlerFuncs(observers[p]))

\* C8: for each event taken from the queue, the observers that have a
\* function for its type are called once each, in registration order, the
\* others are skipped, and the next event is taken only after all of them.
C8_EveryObserverInOrder ==
    /\ [](runPc = "deliver" => CalledWith(event.seq) = WithFunc(idx - 1, event.eventType))
    /\ [][runPc = "deliver" => observers' = observers]_vars
    /\ [][(runPc = "deliver" /\ runPc' # "deliver") => idx = Len(observers) + 1]_vars

\* an update was delivered to two observers: the first has no function for
\* it and was skipped, the second was called
C8_Witness ==
    /\ runPc = "deliver"
    /\ observers = <<"h2", "h1">>
    /\ event.eventType = updateEvent
    /\ idx = 3
    /\ CalledWith(event.seq) = <<2>>

(***************************************************************************)
(* Properties of the table cache.                                          *)
(***************************************************************************)
\* the record a row decodes to under the key uuid
Decoded(row, uuid) ==
    [UUID |-> uuid,
     Foo |-> IF "foo" \in DOMAIN row THEN row["foo"] ELSE "",
     Bar |-> IF "bar" \in DOMAIN row THEN row["bar"] ELSE ""]

\* C4: when the application of a delta for key k completes: after an insert
\* (no old row) the cache holds at k the record decoded from the new row;
\* after a modify (old and new row) it holds at k a record with the new
\* row's values and no other key was added; after a delete (old row, no new
\* row) k is absent.
C4_PopulateLifecycle ==
    [][version' # version =>
        LET d == cur
            before == cache[d.table]
            after == cache'[d.table]
        IN /\ (d.old = EmptyRow /\ d.new # EmptyRow) =>
                 /\ d.uuid \in DOMAIN after
                 /\ after[d.uuid] = Decoded(d.new, d.uuid)
           /\ (d.old # EmptyRow /\ d.new # EmptyRow) =>
                 /\ d.uuid \in DOMAIN after
                 /\ after[d.uuid].UUID = d.uuid
                 /\ \A c \in DOMAIN d.new : after[d.uuid][FieldOf(c)] = d.new[c]
                 /\ DOMAIN after \ DOMAIN before \subseteq {d.uuid}
           /\ (d.old # EmptyRow /\ d.new = EmptyRow) =>
                 d.uuid \notin DOMAIN after]_vars

\* a cached row was modified in place while another row is cached, and its
\* update event was submitted
C4_Witness ==
    /\ popPc = "next"
    /\ lastEv.eventType = updateEvent
    /\ version = lastEv.seq
    /\ RowsOf(lastEv.table) = UUIDs
    /\ cache[lastEv.table][lastEv.uuid] = [UUID |-> lastEv.uuid, Foo |-> "quux", Bar |-> "baz"]

\* C5: every cached record is stored under the key that is its identity
\* field's value, so no two records of a table share an identity.
C5_KeyIsIdentity ==
    \A t \in Tables : \A u \in DOMAIN cache[t] : cache[t][u].UUID = u

\* two records are cached while one of them is being modified in place
C5_Witness ==
    /\ popPc = "modify"
    /\ \E t \in Tables : Cardinality(DOMAIN cache[t]) = 2

\* C12: an insert delta (no old row) applied to a cache that already holds,
\* under the delta's key, the values of the delta's new row - the cache as the
\* first application of that delta leaves it - leaves the cache as it is: one
\* entry for the key, equal to the record decoded from the delta.
C12_InsertIdempotent ==
    [][(/\ version' # version
        /\ cur.old = EmptyRow
        /\ cur.new # EmptyRow
        /\ cur.uuid \in DOMAIN cache[cur.table]
        /\ cache[cur.table][cur.uuid].Foo = Decoded(cur.new, cur.uuid).Foo
        /\ cache[cur.table][cur.uuid].Bar = Decoded(cur.new, cur.uuid).Bar)
       => /\ cache' = cache
          /\ cache'[cur.table][cur.uuid] = Decoded(cur.new, cur.uuid)]_vars

\* an insert delta for a key was applied right after an insert delta for the
\* same key, and the cache holds that one entry, decoded from the delta
C12_Witness ==
    /\ popPc = "enqueue"
    /\ cur.old = EmptyRow
    /\ cur.new # EmptyRow
    /\ version = cur.seq
    /\ nApplied = 2
    /\ lastEv.eventType = addEvent
    /\ lastEv.uuid = cur.uuid
    /\ lastEv.seq = cur.seq - 1
    /\ DOMAIN cache[cur.table] = {cur.uuid}
    /\ cache[cur.table][cur.uuid] = Decoded(cur.new, cur.uuid)

WholeRecords(ref) ==
    IF ref.kind = "live" /\ popPc = "modify" /\ cur.uuid = ref.uuid
    THEN {prior, rowToFields(cur.new, prior, DOMAIN cur.new)}
    ELSE {Deref(ref)}

\* C9: every record List or Get copies out equals the record as it was
\* before or after a whole delta, never a partially updated record.
C9_ReadersSeeWholeDeltas ==
    [][/\ Len(result') > Len(result) => result'[Len(result')] \in WholeRecords(rElem)
       /\ (rOp = "Get" /\ rModel' # rModel) => rModel' \in WholeRecords(rElem)]_vars

(***************************************************************************)
(* Properties of the handler list.                                         *)
(***************************************************************************)
\* how many times h occurs in the sequence s
Count(s, h) == Cardinality({i \in DOMAIN s : s[i] = h})

\* C10: no Register or Unregister changes the handler list while a delivery
\* loop (update, echo or disconnect) iterates over it; so a delivery never
\* skips a handler that stays registered, nor calls a handler more often
\* than it was registered.
C10_RegistrationSerialized ==
    /\ [][(nPc = "iter" \/ dPc = "iter") => UNCHANGED <<handlers, handlersLen>>]_vars
    /\ [](dPc = "done" =>
            \A i \in DOMAIN dStart :
                dStart[i] \in {"nil"} \cup dRemoved \/ Count(dVisited, dStart[i]) > 0)
    /\ [](\A h \in NotificationHandlers : Count(dVisited, h) <= Count(dStart, h))

\* update and echo alone: the list does not change while they iterate, and
\* they call the handlers of the list in order
NotifySerialized ==
    /\ [][nPc = "iter" => UNCHANGED <<handlers, handlersLen>>]_vars
    /\ [](nPc = "iter" => nVisited = SubSeq(HandlerList, 1, nIdx - 1))

(***************************************************************************)
(* Properties of the query API.                                            *)
(***************************************************************************)
\* what a call of the query API may write: all of the reader but the
\* reference it holds
callVars == <<rPc, rOp, rKeys, rCap, rErr, result, rModel, rCond, rArg, rOut, rIn>>

\* C11: no step of List, Get, Where, Create or generate changes the cache
\* (its key set or a stored record); the cache changes only in a step of
\* populate that applies a delta under the cache lock.
C11_QueryLeavesCache ==
    [][/\ callVars' # callVars => cache' = cache
       /\ cache' # cache => cacheMutex /\ popPc \in {"apply", "modify"}]_vars

\* a Create of a record the cache does not hold has returned, next to a
\* cache that holds another record
C11_Witness ==
    /\ rPc = "done"
    /\ rOp = "Create"
    /\ rArg.UUID # ""
    /\ rArg.UUID \notin RowsOf(rTable)
    /\ RowsOf(rTable) # {}

\* C15: Get of a record whose identity is set returns the record cached
\* under that key, whatever the other fields of the argument are equal to,
\* and NotFoundError exactly when the cache has no record under that key.
C15_GetByIdentity ==
    (rPc = "done" /\ rOp = "Get" /\ rArg.UUID # "")
        => /\ rErr \in {"", "NotFound"}
           /\ rErr = "NotFound" <=> rArg.UUID \notin RowsOf(rTable)
           /\ rErr = "" => rModel = cache[rTable][rArg.UUID]

\* Get of a record with identity u1 and the indexed value of the record
\* cached under another key has returned the record under u1
C15_Witness ==
    /\ rPc = "done"
    /\ rOp = "Get"
    /\ rErr = ""
    /\ rArg.UUID = "u1"
    /\ rArg.Foo = "quux"
    /\ \E k \in RowsOf(rTable) : k # "u1" /\ cache[rTable][k].Foo = rArg.Foo
    /\ rModel = cache[rTable]["u1"]
    /\ rModel.Foo # rArg.Foo

Matching(m) ==
    {cache[rTable][k] : k \in {u \in RowsOf(rTable) : equalFields(rTable, m, cache[rTable][u], {})}}

C18_EmptyMatchesAll ==
    (rPc = "done" /\ rOp = "List" /\ rCond.kind = "index" /\ rCond.model = NoModel
        /\ rCond.fields = {})
        => {result[i] : i \in DOMAIN result} = {cache[rTable][k] : k \in RowsOf(rTable)}

C20_GetOverwrites ==
    (rPc = "done" /\ rOp = "Get" /\ rErr = "")
        => \E k \in RowsOf(rTable) :
            /\ equalFields(rTable, rArg, cache[rTable][k], {})
            /\ \A f \in {"UUID", "Foo", "Bar"} : rModel[f] = cache[rTable][k][f]

\* Get has succeeded for a record whose Foo differed from the cached
\* record's and whose Bar was unset: both hold the cached values now
C20_Witness ==
    /\ rPc = "done"
    /\ rOp = "Get"
    /\ rErr = ""
    /\ rArg.Foo # ""
    /\ rArg.Bar = ""
    /\ rModel.UUID = rArg.UUID
    /\ rModel.Foo \notin {"", rArg.Foo}
    /\ rModel.Bar # ""
    /\ rModel.Foo = cache[rTable][rArg.UUID].Foo
    /\ rModel.Bar = cache[rTable][rArg.UUID].Bar

C22_ListReturnsMatching ==
    (rPc = "done" /\ rOp = "List" /\ rErr = "" /\ rIn = NoArg)
        => LET all == {cache[rTable][k] : k \in RowsOf(rTable)}
               sat == IF rCond.kind = "none" THEN all
                      ELSE IF rCond.kind = "predicate" THEN {m \in all : m.Bar = "baz"}
                      ELSE {m \in all : equalFields(rTable, rCond.model, m, rCond.fields)}
           IN  /\ {result[i] : i \in DOMAIN result} = sat
               /\ Len(result) = Cardinality(sat)

\* List under a predicate condition has returned the one record of two
\* that the predicate is true of
C22_Witness ==
    /\ rPc = "done"
    /\ rOp = "List"
    /\ rCond.kind = "predicate"
    /\ Cardinality(RowsOf(rTable)) = 2
    /\ Len(result) = 1
    /\ result[1].Bar = "baz"
    /\ \E k \in RowsOf(rTable) : cache[rTable][k].Bar # "baz"

C24_ConditionTableChecked ==
    (/\ rOp = "List"
     /\ rPc # "idle"
     /\ rIn.kind = "ptrslice"
     /\ FindTable(rIn.type) # ""
     /\ rCond.kind \in {"index", "predicate"}
     /\ rCond.table # FindTable(rIn.type))
        => /\ rPc = "done"
           /\ rErr = "InputType"
           /\ result = Zeros(rIn.len)
           /\ rCap = rIn.cap

\* List into a slice of the cached table's model, under a predicate
\* condition of another table, has returned an InputTypeError and copied
\* nothing of a cache that holds a record
C24_Witness ==
    /\ rPc = "done"
    /\ rOp = "List"
    /\ rErr = "InputType"
    /\ rCond.kind = "predicate"
    /\ rCond.table = "Bridge"
    /\ rIn.type = "OpenvSwitch"
    /\ ~rIn.nil
    /\ rIn.len = 1
    /\ rIn.cap = 2
    /\ result = <<NoModel>>
    /\ RowsOf(rTable) # {}

\* C25: Where never panics; it returns the errorApi with the error exactly
\* for nil, for a function of the wrong arity or return type, and for a
\* function argument or a value whose type is no registered Model; on the
\* errorApi, Where returns the same object and List returns the kept error
\* at once, the result slice as it was passed and the cache unread.
C25_WhereDefersErrors ==
    [][/\ rPc' # "panic"
       /\ (rPc = "idle" /\ rPc' = "idle" /\ rCond.kind = "none" /\ rIn' # rIn)
            => /\ rCond'.kind \in {"error", "index", "predicate"}
               /\ rCond'.kind = "error"
                    <=> \/ rIn'.kind \in {"nil", "funcArity", "funcRet"}
                        \/ rIn'.type \in {"Unregistered", "string"}
               /\ rCond'.kind = "error" => rCond'.err # ""
       /\ (rPc = "idle" /\ rCond.kind = "error")
            => /\ rPc' = "idle" => rCond' = rCond
               /\ rPc' # "idle"
                    => /\ rPc' = "done"
                       /\ cache' = cache
                       /\ rOp' = "List"
                       /\ rErr' = rCond.err
                       /\ rCond' = rCond
                       /\ result' = Zeros(rIn'.len)
                       /\ rCap' = rIn'.cap]_vars

\* List on the errorApi Where returned for a function of the wrong return
\* type has reported that error, the slice passed with one element unchanged
C25_Witness ==
    /\ rPc = "done"
    /\ rOp = "List"
    /\ rCond.kind = "error"
    /\ rErr = "Condition: func"
    /\ rIn.kind = "ptrslice"
    /\ rIn.len = 1
    /\ rIn.cap = 2
    /\ result = <<NoModel>>
    /\ RowsOf(rTable) # {}

\* C26: Create returns one insert operation for the record's table, named
\* by the record's identity ("" when it has none), whose row holds exactly
\* the columns of the fields that are set, with their values, and never the
\* identity column.
C26_CreateOperation ==
    (rPc = "done" /\ rOp = "Create")
        => /\ rErr = ""
           /\ Len(rOut) = 1
           /\ rOut[1].op = "insert"
           /\ rOut[1].table = "Open_vSwitch"
           /\ rOut[1].uuidName = rArg.UUID
           /\ "_uuid" \notin DOMAIN rOut[1].row
           /\ DOMAIN rOut[1].row = {c \in Columns : rArg[FieldOf(c)] # ""}
           /\ \A c \in DOMAIN rOut[1].row : rOut[1].row[c] = rArg[FieldOf(c)]
           /\ (rArg.Foo = "" /\ rArg.Bar = "") => rOut[1].row = EmptyRow

\* Create of a record with only its identity set has returned the insert
\* named by it, with an empty row
C26_Witness ==
    /\ rPc = "done"
    /\ rOp = "Create"
    /\ rArg.UUID = "u1"
    /\ rArg.Foo = ""
    /\ rArg.Bar = ""
    /\ rOut = <<[op |-> "insert", table |-> "Open_vSwitch", row |-> EmptyRow, uuidName |-> "u1"]>>

(***************************************************************************)
(* Properties of the schema and of the conversions.                        *)
(***************************************************************************)
\* C27: a column whose type is a bare string resolves to that type and has
\* no type object; a column whose type object decodes resolves to map when
\* a value is present, else to enum when the key declares an enumeration,
\* else to the key's type when min and max, 1 unless given, are both 1,
\* else to set; and max is -1 exactly when it was given as "unlimited".
C27_TypeResolution ==
    \A i \in DOMAIN schCols :
        LET r == schCols[i].raw
            c == schCols[i].col
        IN  IF r.shape = "string"
            THEN c.Type = r.name /\ ~c.obj
            ELSE r.key.enum # "bad" =>
                    /\ c.obj
                    /\ c.min = (IF r.min = "absent" THEN 1 ELSE 0)
                    /\ r.max = "absent" => c.max = 1
                    /\ c.max = Unlimited <=> r.max = "unlimited"
                    /\ c.Type = IF r.value.form # "absent" THEN "map"
                                ELSE IF r.key.enum = "ok" THEN "enum"
                                ELSE IF c.min = 1 /\ c.max = 1 THEN r.key.type
                                ELSE "set"

\* an enumeration of exactly one value has been resolved, in a schema that
\* parsed
C27_Witness ==
    /\ schPc = "ok"
    /\ \E i \in DOMAIN schCols :
         /\ schCols[i].raw.key.enum = "ok"
         /\ schCols[i].raw.min = "absent"
         /\ schCols[i].raw.max = "absent"
         /\ schCols[i].col.Type = "enum"

\* C28: once the parse of a schema has reported success, every column has
\* one of the eight ExtendedTypes, and a column whose type was a bare
\* string has one of the five atomic types.
C28_ResolvedTypes ==
    schPc = "ok" =>
        \A i \in DOMAIN schCols :
            /\ schCols[i].col.Type \in ExtendedTypes
            /\ schCols[i].raw.shape = "string" => schCols[i].col.Type \in AtomicTypes

\* C29: the parse of a schema never reports success when the type of one of
\* its columns is a type object that does not decode, has a key or a value
\* that does not decode, a max that is a string other than "unlimited", or
\* an enumeration that does not decode; it returns an error then, and no
\* column of a schema that parsed is left without a type.
C29_MalformedFails ==
    /\ schPc # "panic"
    /\ schPc = "ok" =>
        \A i \in DOMAIN schCols :
            LET r == schCols[i].raw
            IN  /\ r.shape # "other"
                /\ r.shape = "object" =>
                      /\ r.min # "bad"
                      /\ r.max \notin {"many", "bad"}
                      /\ r.key.form \in {"string", "object"}
                      /\ r.value.form # "bad"
                      /\ r.key.enum # "bad"
                /\ schCols[i].col.Type # ""

\* what the other end decodes from a value sent to the wire: the OvsSet or
\* OvsMap a pointer points to
Sent(w) ==
    IF w.k = "*OvsSet" THEN [w EXCEPT !.k = "OvsSet"]
    ELSE IF w.k = "*OvsMap" THEN [w EXCEPT !.k = "OvsMap"]
    ELSE w

\* the dynamic type of a value of the wire of an atomic type
WireKind(type) == IF type = "uuid" THEN "UUID" ELSE nativeTypeFromExtended(type)

\* a value of the wire is well formed for a column: a scalar of its type, a
\* UUID, a set of its key type or the one element of such a set, a map of
\* its key and value types
WellFormed(column, w) ==
    CASE column.Type \in AtomicTypes -> w.k = WireKind(column.Type)
      [] column.Type = "enum" -> w.k = WireKind(column.keyType)
      [] column.Type = "set" ->
            \/ w.k = "OvsSet" /\ (w.v = <<>> \/ w.e = WireKind(column.keyType))
            \/ w.k = WireKind(column.keyType)
      [] column.Type = "map" ->
            /\ w.k = "OvsMap"
            /\ w.v = <<>> \/ (w.e = WireKind(column.keyType) /\ w.f = WireKind(column.valueType))
      [] OTHER -> FALSE

\* the canonical form of a well-formed value of the wire: the one element
\* of a set is the set of that element
Canonical(column, w) ==
    IF column.Type = "set" /\ w.k # "OvsSet"
    THEN [NoValue EXCEPT !.k = "OvsSet", !.e = w.k, !.v = w.v]
    ELSE w

\* C30: for a column with one of the eight types, a native value of the
\* column's native type converts to the wire and back to itself, and a
\* well-formed value of the wire converts to a native value and back to its
\* canonical form, with no error either way.
C30_RoundTrip ==
    cv.col > 0 /\ NativeType(schCols[cv.col].col) # "" =>
        LET column == schCols[cv.col].col
        IN  /\ cv.dir = "NativeToOvs" /\ cv.in.k = NativeType(column) =>
                /\ cv.err = ""
                /\ OvsToNative(column, Sent(cv.out)) = [err |-> "", out |-> cv.in]
            /\ cv.dir = "OvsToNative" /\ WellFormed(column, cv.in) =>
                /\ cv.err = ""
                /\ NativeToOvs(column, cv.out).err = ""
                /\ Sent(NativeToOvs(column, cv.out).out) = Canonical(column, cv.in)

\* C31: for a set column, a value of the wire that is a set of one element,
\* as the tagged list or as the element alone, converts with no error to
\* the native sequence of that one element, never to a scalar.
C31_SingleElementSet ==
    cv.dir = "OvsToNative" /\ schCols[cv.col].col.Type = "set"
        /\ NativeType(schCols[cv.col].col) # ""
        /\ WellFormed(schCols[cv.col].col, cv.in) /\ Len(cv.in.v) = 1 =>
            /\ cv.err = ""
            /\ cv.out = [NoValue EXCEPT !.k = NativeType(schCols[cv.col].col), !.v = cv.in.v]

\* C32: a native value whose dynamic type is not the native type of the
\* column converts to a type error and to no value for the wire.
C32_StrictTypeCheck ==
    cv.dir = "NativeToOvs" /\ cv.in.k # NativeType(schCols[cv.col].col) =>
        cv.err = "error" /\ cv.out = NoValue

(***************************************************************************)
(* Properties of the database model.                                       *)
(***************************************************************************)
\* C33: NewDBModel returns a DBModel only when every model is a pointer to
\* a struct with exactly one field mapped to _uuid, a string; and when one
\* of the models has no string field mapped to _uuid it returns an error
\* and no DBModel.
C33_RegistrationValidates ==
    /\ dbPc = "ok" =>
         \A i \in DOMAIN dbModels :
             /\ ModelTypes[dbModels[i]].kind = "ptrstruct"
             /\ ModelTypes[dbModels[i]].uuids = 1
             /\ ModelTypes[dbModels[i]].others = 0
    /\ dbPc # "none" /\ (\E i \in DOMAIN dbModels : ModelTypes[dbModels[i]].uuids = 0) =>
         dbPc = "error" /\ dbTypes = <<>>

\* C34: the DBModel NewDBModel returns has as many tables as models were
\* passed.
C34_TablesCount ==
    dbPc = "ok" => Cardinality(DOMAIN dbTypes) = Len(dbModels)

\* C35: newModel of a table of the DBModel returns, with no error, an
\* instance of the type registered for the table, which FindTable maps
\* back to the table; newModel of another table returns an error and
\* nothing; FindTable of a type the DBModel does not hold returns "".
C35_NewModelFindTable ==
    /\ dbCall.op = "newModel" =>
         IF dbCall.arg \in DOMAIN dbTypes
         THEN /\ dbCall.err = ""
              /\ dbCall.out = dbTypes[dbCall.arg]
              /\ DBModelFindTable(dbTypes, dbCall.out) = dbCall.arg
         ELSE dbCall.err = "not found" /\ dbCall.out = ""
    /\ dbCall.op = "FindTable" =>
         IF \E n \in DOMAIN dbTypes : dbTypes[n] = dbCall.arg
         THEN dbCall.out \in DOMAIN dbTypes /\ dbTypes[dbCall.out] = dbCall.arg
         ELSE dbCall.out = ""

\* newModel has returned an instance for the second table of a DBModel of
\* two tables
C35_Witness ==
    /\ dbPc = "ok"
    /\ Cardinality(DOMAIN dbTypes) = 2
    /\ dbCall.op = "newModel"
    /\ dbCall.arg = "Test_B"
    /\ dbCall.err = ""
    /\ dbCall.out = "modelB"

(***************************************************************************)
(* Properties of the dispatch flow while the connection lives.             *)
(***************************************************************************)
\* C36: an event that is in the channel is eventually taken from it by the
\* dispatch flow and handed to every observer, unless the lifecycle channel
\* is closed first.
C36_QueuedIsDelivered ==
    \A n \in 1..LifeDeltas :
        (\E i \in DOMAIN events : events[i].seq = n)
            ~> (stopCh \/ (runPc = "deliver" /\ event.seq = n /\ idx > Len(observers)))

\* the second event has been handed to the observers, which were called,
\* while the connection lives
C36_Witness ==
    /\ ~stopCh
    /\ runPc = "deliver"
    /\ event.seq = 2
    /\ idx > Len(observers)
    /\ \E c \in DOMAIN calls : calls[c].seq = 2

(***************************************************************************)
(* Properties of the conditions generated for the wire.                    *)
(***************************************************************************)
\* C37: generate of a predicate condition returns NotFoundError and no
\* condition when the cache has no such table; otherwise it returns, with
\* no error, one condition of equality on _uuid for each record of the
\* table's cache the predicate is true of, and no other condition.
C37_GenerateMaterializes ==
    (rPc = "done" /\ rOp = "generate" /\ rCond.kind = "predicate") =>
        IF rCond.table \notin DOMAIN cache
        THEN rErr = "NotFound" /\ rOut = <<>>
        ELSE LET sat == {k \in RowsOf(rCond.table) : cache[rCond.table][k].Bar = "baz"}
             IN  /\ rErr = ""
                 /\ Len(rOut) = Cardinality(sat)
                 /\ {rOut[i] : i \in DOMAIN rOut} = {{<<"_uuid", "==", k>>} : k \in sat}

\* generate of a predicate condition has returned the condition of the one
\* record of two that the predicate is true of
C37_Witness ==
    /\ rPc = "done"
    /\ rOp = "generate"
    /\ rCond.kind = "predicate"
    /\ rCond.table \in DOMAIN cache
    /\ Cardinality(RowsOf(rCond.table)) = 2
    /\ Len(rOut) = 1

(***************************************************************************)
(* Properties of the transactions.                                         *)
(***************************************************************************)
\* C38: when an operation of a Transact is on a table the schema does not
\* have, or names in its row, in one of its rows or in its columns a column
\* that is neither of the table nor _uuid nor _version, Transact returns
\* the validation error and makes no call on the rpc client; otherwise it
\* makes exactly one transact call, with all the operations in their order.
C38_TransactValidates ==
    txPc = "done" =>
        LET named(op) == op.row \cup UNION {op.rows[r] : r \in DOMAIN op.rows}
                            \cup {op.columns[c] : c \in DOMAIN op.columns}
            bad(op) == op.table \notin Tables
                          \/ named(op) \ (Columns \cup {"_uuid", "_version"}) # {}
        IN  IF \E i \in DOMAIN txOps : bad(txOps[i])
            THEN txErr = "validation" /\ rpcCalls = <<>>
            ELSE /\ txErr # "validation"
                 /\ rpcCalls = <<[method |-> "transact", ops |-> txOps]>>

\* Transact has refused two operations of which the second names an
\* unknown column in one of its rows
C38_Witness ==
    /\ txPc = "done"
    /\ Len(txOps) = 2
    /\ txOps[1].table \in Tables
    /\ txOps[1].row = {"foo", "_uuid"}
    /\ txOps[2].table \in Tables
    /\ Len(txOps[2].rows) = 2
    /\ "bogus" \in txOps[2].rows[2]
    /\ txErr = "validation"
    /\ rpcCalls = <<>>

(***************************************************************************)
(* Properties of Unregister.                                               *)
(***************************************************************************)
\* the list without its i-th element
WithoutIndex(list, i) == SubSeq(list, 1, i - 1) \o SubSeq(list, i + 1, Len(list))

\* C40: Unregister removes exactly one handler, the first of the list equal
\* to its argument, and leaves the others in their order; when no handler of
\* the list equals the argument it returns the not-found error and leaves
\* the list as it was.
C40_UnregisterFirstEqual ==
    [][\A handler \in NotificationHandlers :
          UnregisterCall(handler) =>
             IF \E i \in 1..handlersLen : HandlerList[i] = handler
             THEN /\ unregErr' = ""
                  /\ \E i \in 1..handlersLen :
                        /\ HandlerList[i] = handler
                        /\ \A j \in 1..(i - 1) : HandlerList[j] # handler
                        /\ HandlerList' = WithoutIndex(HandlerList, i)
             ELSE /\ unregErr' = "handler not found"
                  /\ HandlerList' = HandlerList]_vars

\* of three handlers registered, n1 twice, the first n1 was unregistered
C40_Witness ==
    /\ nRegistered = 3
    /\ handlersLen = 2
    /\ handlers = <<"n2", "n1", "n1", "nil">>
    /\ unregErr = ""

(***************************************************************************)
(* Properties of the update notification on a connected client.            *)
(***************************************************************************)
\* the handlers of the application
UserHandlers == {"n1", "n2"}

\* the cache was handed the update, and populate has returned
CacheApplied(i) ==
    /\ \E j \in 1..(i - 1) : nVisited[j] = "cache"
    /\ nPc # "call" => (popPc = "idle" /\ cur = NoDelta /\ ~cacheMutex)

\* C39, as stated: for every update notification, every handler of the
\* application is called after the cache was handed the update and applied it.
C39_CacheBeforeUserHandlers ==
    nKind = "update" =>
        \A i \in DOMAIN nVisited : nVisited[i] \in UserHandlers => CacheApplied(i)

\* C39, amended: while the cache is still the first handler of the list,
\* where connection setup registered it, every handler of the application is
\* called with an update after the cache was handed the update and applied it.
C39_CacheFirstBeforeUserHandlers ==
    (nKind = "update" /\ handlersLen >= 1 /\ handlers[1] = "cache") =>
        \A i \in DOMAIN nVisited : nVisited[i] \in UserHandlers => CacheApplied(i)

\* an update of one row was applied by the cache and then handed to n1
C39_Witness ==
    /\ nKind = "update"
    /\ HandlerList = <<"cache", "n1">>
    /\ nVisited = <<"cache", "n1">>
    /\ version >= 1
    /\ \E u \in UUIDs : u \in RowsOf("Open_vSwitch")

====
